---- MODULE Spec2Model ----
(***************************************************************************)
(* A model of the RDA5807 FM radio driver (fm_rda5807.c) and of the RDS    *)
(* group decoder (rds_parser.c).                                           *)
(*                                                                         *)
(* Registers are 16-bit words held as naturals in 0..65535.  Frequencies   *)
(* are floats in MHz in the source; the model holds them as integers in    *)
(* kHz, so that 87.0f is 87000 and a channel spacing of 0.1f is 100.       *)
(* Time is the value of time_us_64(), in microseconds, counted from the    *)
(* last instant at which no task was in flight: the driver keeps a time    *)
(* only in async.resume_time, which is zero whenever no task is in flight. *)
(* An assert() that fails stops the program: the call changes nothing and  *)
(* leaves pc = "aborted".                                                  *)
(***************************************************************************)
EXTENDS Integers, Sequences, FiniteSets, TLC

VARIABLES
    radio,   \* the rda5807_t instance
    chip,    \* the register file of the RDA5807 chip on the other side of the bus
    now,     \* time_us_64()
    pc,      \* where the caller is: "ready", inside a blocking loop, "aborted", "panic"
    call,    \* the last call made: [op, arg, ret]
    bus,     \* the I2C transfers made by the last call, in order
    parser   \* the rds_parser_t instance

vars == <<radio, chip, now, pc, call, bus, parser>>

----------------------------------------------------------------------------
(* Bounds of the model. *)

\* The transfers of one call that may fail are those at positions 1..MaxFaultPos
\* of the call.
MaxFaultPos == 1

\* While a task is in flight the clock readings explored are b * 200 ms + a * 5 ms
\* after its start, a <= MaxShortSleeps, b <= MaxLongSleeps.
MaxShortSleeps == 1

MaxLongSleeps == 1

\* At most this many of the six settings differ from their fm_init values at a time.
MaxChangedSettings == 1

----------------------------------------------------------------------------
(* 16-bit words and the bit macros of fm_rda5807.c. *)

Word == 65536

RECURSIVE BitAnd(_, _)
BitAnd(a, b) ==
    IF a = 0 \/ b = 0 THEN 0
    ELSE (IF a % 2 = 1 /\ b % 2 = 1 THEN 1 ELSE 0) + 2 * BitAnd(a \div 2, b \div 2)

RECURSIVE BitOr(_, _)
BitOr(a, b) ==
    IF a = 0 THEN b
    ELSE IF b = 0 THEN a
    ELSE (IF a % 2 = 1 \/ b % 2 = 1 THEN 1 ELSE 0) + 2 * BitOr(a \div 2, b \div 2)

\* ~x on a uint16_t operand, kept to 16 bits by the assignment to a uint16_t.
BitNot16(a) == (Word - 1) - a

\* value << lsb
Shl(value, lsb) == value * (2 ^ lsb)

\* value >> lsb
Shr(value, lsb) == value \div (2 ^ lsb)

\* fm_get_bit(reg, bit): ((reg) & BIT) != 0.  Every BIT mask of fm_rda5807_regs.h
\* is a single bit 2^k, for which the test is that of bit k.
fm_get_bit(reg, bit) == (reg \div bit) % 2 = 1

\* fm_set_bit(reg, bit, value): reg |= BIT or reg &= ~BIT, for a single-bit mask
fm_set_bit(reg, bit, value) ==
    IF value
    THEN (IF fm_get_bit(reg, bit) THEN reg ELSE reg + bit)
    ELSE (IF fm_get_bit(reg, bit) THEN reg - bit ELSE reg)

\* fm_set_bits(reg, bits, value): reg &= ~BITS; reg |= (value) << LSB;
\* the value is not masked, and the result is stored in a uint16_t.
fm_set_bits(reg, bits, lsb, value) ==
    BitOr(BitAnd(reg, BitNot16(bits)), Shl(value, lsb)) % Word

\* fm_get_bits(reg, bits): ((reg) & BITS) >> LSB
fm_get_bits(reg, bits, lsb) == Shr(BitAnd(reg, bits), lsb)

----------------------------------------------------------------------------
(* fm_rda5807_regs.h: addresses, bit masks and field positions. *)

RDA5807_ADDR_SEQUENTIAL == 16

RDA5807_ADDR_RANDOM_ACCESS == 17

CHIP_ID == 22532 \* 0x5804

\* Register 0x2
ENABLE_BIT == 2 ^ 0

SOFT_RESET_BIT == 2 ^ 1

NEW_METHOD_BIT == 2 ^ 2

RDS_EN_BIT == 2 ^ 3

SKMODE_BIT == 2 ^ 7

SEEK_BIT == 2 ^ 8

SEEKUP_BIT == 2 ^ 9

BASS_BIT == 2 ^ 12

MONO_BIT == 2 ^ 13

DMUTE_BIT == 2 ^ 14

DHIZ_BIT == 2 ^ 15

\* Register 0x3
SPACE_LSB == 0

SPACE_BITS == Shl(3, SPACE_LSB)

BAND_LSB == 2

BAND_BITS == Shl(3, BAND_LSB)

TUNE_BIT == 2 ^ 4

DIRECT_MODE_BIT == 2 ^ 5

CHAN_LSB == 6

CHAN_BITS == Shl(1023, CHAN_LSB)

\* Register 0x4
SOFTMUTE_EN_BIT == 2 ^ 9

DE_BIT == 2 ^ 11

\* Register 0x5
VOLUME_LSB == 0

VOLUME_BITS == Shl(15, VOLUME_LSB)

SEEKTH_LSB == 8

SEEKTH_BITS == Shl(15, SEEKTH_LSB)

\* Register 0x7
BAND_65M_50M_MODE_BIT == 2 ^ 9

\* Register 0xA
READCHAN_LSB == 0

READCHAN_BITS == Shr(1023, READCHAN_LSB)

ST_BIT == 2 ^ 10

\* SF bit (a name starting with SF and an underscore is reserved in TLA+)
SEEKFAIL_BIT == 2 ^ 13

STC_BIT == 2 ^ 14

RDSR_BIT == 2 ^ 15

\* Register 0xB
RSSI_LSB == 9

RSSI_BITS == Shl(127, RSSI_LSB)

\* The reset value of each register, as documented in fm_rda5807_regs.h
\* (0x4FC0, 0x0400, 0x888B, 0x42C6, 0x013F); registers it does not document reset to 0.
ChipDefaults ==
    [i \in 0..15 |->
        CASE i = 0 -> CHIP_ID
          [] i = 3 -> 20416
          [] i = 4 -> 1024
          [] i = 5 -> 34955
          [] i = 7 -> 17094
          [] i = 10 -> 319
          [] OTHER -> 0]

----------------------------------------------------------------------------
(* fm_rda5807.h: limits, configuration, frequency range. *)

FM_MAX_SEEK_THRESHOLD == 15

FM_MAX_VOLUME == 15

TUNE_POLL_INTERVAL_MS == 5

SEEK_POLL_INTERVAL_MS == 200

fm_band_t ==
    {"FM_BAND_COMMON", "FM_BAND_JAPAN", "FM_BAND_JAPAN_WIDE",
     "FM_BAND_EAST_EUROPE", "FM_BAND_EAST_EUROPE_UPPER"}

fm_channel_spacing_t ==
    {"FM_CHANNEL_SPACING_200", "FM_CHANNEL_SPACING_100",
     "FM_CHANNEL_SPACING_50", "FM_CHANNEL_SPACING_25"}

fm_deemphasis_t == {"FM_DEEMPHASIS_75", "FM_DEEMPHASIS_50"}

fm_config_usa ==
    [band |-> "FM_BAND_COMMON", channel_spacing |-> "FM_CHANNEL_SPACING_200",
     deemphasis |-> "FM_DEEMPHASIS_75"]

fm_config_europe ==
    [band |-> "FM_BAND_COMMON", channel_spacing |-> "FM_CHANNEL_SPACING_100",
     deemphasis |-> "FM_DEEMPHASIS_50"]

\* memset(radio, 0, ...) leaves the first enumerator of each enum in config.
ZeroConfig ==
    [band |-> "FM_BAND_COMMON", channel_spacing |-> "FM_CHANNEL_SPACING_200",
     deemphasis |-> "FM_DEEMPHASIS_75"]

\* fm_frequency_range(band, channel_spacing), in kHz
fm_frequency_range(band, channel_spacing) ==
    [bottom |-> CASE band = "FM_BAND_COMMON" -> 87000
                  [] band = "FM_BAND_JAPAN" -> 76000
                  [] band = "FM_BAND_JAPAN_WIDE" -> 76000
                  [] band = "FM_BAND_EAST_EUROPE" -> 50000
                  [] OTHER -> 65000,
     top |-> CASE band = "FM_BAND_COMMON" -> 108000
               [] band = "FM_BAND_JAPAN" -> 91000
               [] band = "FM_BAND_JAPAN_WIDE" -> 108000
               [] band = "FM_BAND_EAST_EUROPE" -> 76000
               [] OTHER -> 76000,
     spacing |-> CASE channel_spacing = "FM_CHANNEL_SPACING_200" -> 200
                   [] channel_spacing = "FM_CHANNEL_SPACING_100" -> 100
                   [] OTHER -> 50]

\* fm_channel_to_frequency(channel, range)
fm_channel_to_frequency(channel, range) == channel * range.spacing + range.bottom

\* roundf(n / d): to nearest, halves away from zero
RoundDiv(n, d) ==
    IF n >= 0 THEN (2 * n + d) \div (2 * d) ELSE -((2 * (-n) + d) \div (2 * d))

\* A conversion that drops the fraction instead of rounding: a cast without roundf.
fm_frequency_to_channel_floor(frequency, range) ==
    ((frequency - range.bottom) \div range.spacing) % Word

\* fm_frequency_to_channel(frequency, range): (uint16_t)roundf((frequency - bottom) / spacing)
fm_frequency_to_channel(frequency, range) ==
    RoundDiv(frequency - range.bottom, range.spacing) % Word

MAX(a, b) == IF a > b THEN a ELSE b

MIN(a, b) == IF a < b THEN a ELSE b

----------------------------------------------------------------------------
(* The chip behind the bus.  The driver sees it only through register      *)
(* transfers; what the transfers do to it is taken from the register       *)
(* descriptions of fm_rda5807_regs.h.                                      *)

\* The chip tunes or seeks: it is enabled, a start bit is set and the complete flag is not.
ChipOperating(c) ==
    /\ fm_get_bit(c[2], ENABLE_BIT)
    /\ fm_get_bit(c[3], TUNE_BIT) \/ fm_get_bit(c[2], SEEK_BIT)
    /\ ~fm_get_bit(c[10], STC_BIT)

\* The chip takes one register write.  A soft reset restores the reset values;
\* a write that sets TUNE or SEEK starts the operation and drops the complete flags.
ChipWrite(c, idx, val) ==
    IF idx = 2 /\ fm_get_bit(val, SOFT_RESET_BIT)
    THEN [ChipDefaults EXCEPT ![0] = c[0], ![2] = val]
    ELSE LET c1 == [c EXCEPT ![idx] = val]
             starts == \/ idx = 2 /\ fm_get_bit(val, SEEK_BIT)
                       \/ idx = 3 /\ fm_get_bit(val, TUNE_BIT)
         IN  IF starts
             THEN [c1 EXCEPT ![10] = fm_set_bit(fm_set_bit(@, STC_BIT, FALSE), SEEKFAIL_BIT, FALSE)]
             ELSE c1

\* The chip takes the words vals for registers first, first + 1, ...
RECURSIVE ChipWriteSeq(_, _, _)
ChipWriteSeq(c, first, vals) ==
    IF vals = <<>> THEN c
    ELSE ChipWriteSeq(ChipWrite(c, first, Head(vals)), first + 1, Tail(vals))

----------------------------------------------------------------------------
(* Register access.  A call threads m = [radio, chip, bus, n] through its  *)
(* transfers: bus is the log of the transfers of the call so far, n the    *)
(* number of transfers of the current step.  faults is the set of          *)
(* positions among the step's transfers that fail: a failed transfer       *)
(* changes neither the chip nor the register image.                        *)

TransferOk(m, faults) == (m.n + 1) \notin faults

\* fm_read_registers(i2c_inst, regs, n): registers 0xA.. in one sequential read
fm_read_registers(m, n, faults) ==
    LET ok == TransferOk(m, faults)
        e == [op |-> "read", addr |-> RDA5807_ADDR_SEQUENTIAL, reg |-> 10, n |-> n,
              vals |-> IF ok THEN [i \in 1..n |-> m.chip[9 + i]] ELSE <<>>, ok |-> ok]
    IN  [m EXCEPT !.bus = Append(@, e), !.n = @ + 1,
                  !.radio.regs = IF ok
                                 THEN [r \in 0..15 |-> IF r \in 10..(9 + n) THEN m.chip[r] ELSE @[r]]
                                 ELSE @]

\* fm_read_registers_up_to(i2c_inst, regs, reg_index)
fm_read_registers_up_to(m, reg_index, faults) ==
    fm_read_registers(m, reg_index - 9, faults)

\* fm_write_registers(i2c_inst, regs, n): registers 0x2.. in one sequential write
fm_write_registers(m, n, faults) ==
    LET ok == TransferOk(m, faults)
        vals == [i \in 1..n |-> m.radio.regs[1 + i]]
        e == [op |-> "write", addr |-> RDA5807_ADDR_SEQUENTIAL, reg |-> 2, n |-> n,
              vals |-> vals, ok |-> ok]
    IN  [m EXCEPT !.bus = Append(@, e), !.n = @ + 1,
                  !.chip = IF ok THEN ChipWriteSeq(@, 2, vals) ELSE @]

\* fm_write_registers_up_to(i2c_inst, regs, reg_index)
fm_write_registers_up_to(m, reg_index, faults) ==
    fm_write_registers(m, reg_index - 1, faults)

\* A single-register write that sends the registers from 0x2 up to the one meant
\* in a sequential write.
fm_write_single_register_batched(m, reg_index, faults) ==
    fm_write_registers(m, reg_index - 1, faults)

\* fm_write_single_register(i2c_inst, regs, reg_index)
fm_write_single_register(m, reg_index, faults) ==
    IF reg_index = 2
    THEN fm_write_registers(m, 1, faults)
    ELSE LET ok == TransferOk(m, faults)
             reg == m.radio.regs[reg_index]
             e == [op |-> "write", addr |-> RDA5807_ADDR_RANDOM_ACCESS, reg |-> reg_index,
                   n |-> 1, vals |-> <<reg>>, ok |-> ok]
         IN  [m EXCEPT !.bus = Append(@, e), !.n = @ + 1,
                       !.chip = IF ok THEN ChipWrite(@, reg_index, reg) ELSE @]

\* fm_read_single_register(i2c_inst, regs, reg_index); the address write and the
\* data read of the random access are one transfer of the log.
fm_read_single_register(m, reg_index, faults) ==
    IF reg_index = 10
    THEN fm_read_registers(m, 1, faults)
    ELSE LET ok == TransferOk(m, faults)
             e == [op |-> "read", addr |-> RDA5807_ADDR_RANDOM_ACCESS, reg |-> reg_index,
                   n |-> 1, vals |-> IF ok THEN <<m.chip[reg_index]>> ELSE <<>>, ok |-> ok]
         IN  [m EXCEPT !.bus = Append(@, e), !.n = @ + 1,
                       !.radio.regs[reg_index] = IF ok THEN m.chip[reg_index] ELSE @]

\* The result of the transfer the call made last.
LastTransferOk(m) == m.bus[Len(m.bus)].ok

\* fm_set_channel_spacing_bits(regs, channel_spacing)
fm_set_channel_spacing_bits(regs, channel_spacing) ==
    LET v == CASE channel_spacing = "FM_CHANNEL_SPACING_200" -> 1
               [] channel_spacing = "FM_CHANNEL_SPACING_100" -> 0
               [] channel_spacing = "FM_CHANNEL_SPACING_50" -> 2
               [] OTHER -> 3
    IN  [regs EXCEPT ![3] = fm_set_bits(@, SPACE_BITS, SPACE_LSB, v)]

\* fm_set_band_bits(regs, band)
fm_set_band_bits(regs, band) ==
    CASE band = "FM_BAND_COMMON" -> [regs EXCEPT ![3] = fm_set_bits(@, BAND_BITS, BAND_LSB, 0)]
      [] band = "FM_BAND_JAPAN" -> [regs EXCEPT ![3] = fm_set_bits(@, BAND_BITS, BAND_LSB, 1)]
      [] band = "FM_BAND_JAPAN_WIDE" -> [regs EXCEPT ![3] = fm_set_bits(@, BAND_BITS, BAND_LSB, 2)]
      [] band = "FM_BAND_EAST_EUROPE" ->
            [regs EXCEPT ![3] = fm_set_bits(@, BAND_BITS, BAND_LSB, 3),
                         ![7] = fm_set_bit(@, BAND_65M_50M_MODE_BIT, FALSE)]
      [] OTHER ->
            [regs EXCEPT ![3] = fm_set_bits(@, BAND_BITS, BAND_LSB, 3),
                         ![7] = fm_set_bit(@, BAND_65M_50M_MODE_BIT, TRUE)]

----------------------------------------------------------------------------
(* The async task engine. *)

\* (fm_async_state_t){}
NoTask == [task |-> "NULL", state |-> 0, resume_time |-> 0]

\* fm_is_powered_up(radio)
fm_is_powered_up(r) == fm_get_bit(r.regs[2], ENABLE_BIT)

\* A tune step that, cancelled, clears the tune bit and keeps the frequency
\* the radio had instead of reading the channel back.
fm_set_frequency_async_task_keeps(m, cancel, faults, t) ==
    LET m1 == IF cancel THEN m ELSE fm_read_single_register(m, 10, faults)
    IN  IF ~cancel /\ ~fm_get_bit(m1.radio.regs[10], STC_BIT)
        THEN [m |-> [m1 EXCEPT !.radio.async.resume_time = t + TUNE_POLL_INTERVAL_MS * 1000],
              done |-> FALSE, result |-> 0]
        ELSE LET m2 == [m1 EXCEPT !.radio.regs[3] = fm_set_bit(@, TUNE_BIT, FALSE)]
                 m3 == fm_write_single_register(m2, 3, faults)
                 m4 == fm_read_single_register(m3, 10, faults)
                 channel == fm_get_bits(m4.radio.regs[10], READCHAN_BITS, READCHAN_LSB)
             IN  [m |-> IF cancel THEN m4
                        ELSE [m4 EXCEPT !.radio.frequency =
                                 fm_channel_to_frequency(channel, m4.radio.frequency_range)],
                  done |-> TRUE, result |-> IF cancel THEN -1 ELSE 0]

\* fm_set_frequency_async_task(radio, cancel), called at time t.
\* Returns the machine and the fm_async_progress_t.
fm_set_frequency_async_task(m, cancel, faults, t) ==
    LET m1 == IF cancel THEN m ELSE fm_read_single_register(m, 10, faults)
    IN  IF ~cancel /\ ~fm_get_bit(m1.radio.regs[10], STC_BIT)
        THEN [m |-> [m1 EXCEPT !.radio.async.resume_time = t + TUNE_POLL_INTERVAL_MS * 1000],
              done |-> FALSE, result |-> 0]
        ELSE LET m2 == [m1 EXCEPT !.radio.regs[3] = fm_set_bit(@, TUNE_BIT, FALSE)]
                 m3 == fm_write_single_register(m2, 3, faults)
                 m4 == fm_read_single_register(m3, 10, faults)
                 channel == fm_get_bits(m4.radio.regs[10], READCHAN_BITS, READCHAN_LSB)
             IN  [m |-> [m4 EXCEPT !.radio.frequency =
                                       fm_channel_to_frequency(channel, m4.radio.frequency_range)],
                  done |-> TRUE, result |-> IF cancel THEN -1 ELSE 0]

\* A start of a tune that returns at once when the frequency is the radio's,
\* as fm_set_frequency_blocking does.
fm_set_frequency_async_same(m, frequency, faults, t) ==
    IF m.radio.frequency = frequency THEN m
    ELSE
    LET range == m.radio.frequency_range
        clamped == MIN(MAX(frequency, range.bottom), range.top)
        channel == fm_frequency_to_channel(clamped, range)
        m1 == [m EXCEPT !.radio.regs[3] =
                   fm_set_bit(fm_set_bits(@, CHAN_BITS, CHAN_LSB, channel), TUNE_BIT, TRUE)]
        m2 == fm_write_single_register(m1, 3, faults)
    IN  [m2 EXCEPT !.radio.async =
            [task |-> "fm_set_frequency_async_task", state |-> 1,
             resume_time |-> t + TUNE_POLL_INTERVAL_MS * 1000]]

\* A tune start that converts the frequency as requested, without clamping it
\* to the band.
fm_set_frequency_async_unclamped(m, frequency, faults, t) ==
    LET range == m.radio.frequency_range
        channel == fm_frequency_to_channel(frequency, range)
        m1 == [m EXCEPT !.radio.regs[3] =
                   fm_set_bit(fm_set_bits(@, CHAN_BITS, CHAN_LSB, channel), TUNE_BIT, TRUE)]
        m2 == fm_write_single_register(m1, 3, faults)
    IN  [m2 EXCEPT !.radio.async =
            [task |-> "fm_set_frequency_async_task", state |-> 1,
             resume_time |-> t + TUNE_POLL_INTERVAL_MS * 1000]]

\* fm_set_frequency_async(radio, frequency), called at time t
fm_set_frequency_async(m, frequency, faults, t) ==
    LET range == m.radio.frequency_range
        clamped == MIN(MAX(frequency, range.bottom), range.top)
        channel == fm_frequency_to_channel(clamped, range)
        m1 == [m EXCEPT !.radio.regs[3] =
                   fm_set_bit(fm_set_bits(@, CHAN_BITS, CHAN_LSB, channel), TUNE_BIT, TRUE)]
        m2 == fm_write_single_register(m1, 3, faults)
    IN  [m2 EXCEPT !.radio.async =
            [task |-> "fm_set_frequency_async_task", state |-> 1,
             resume_time |-> t + TUNE_POLL_INTERVAL_MS * 1000]]

\* A seek step that does not look at the seek-failed flag when the seek is complete.
fm_seek_async_task_nofail(m, cancel, faults, t) ==
    LET m1 == IF cancel THEN m ELSE fm_read_single_register(m, 10, faults)
        status == m1.radio.regs[10]
    IN  IF ~cancel /\ ~fm_get_bit(status, STC_BIT)
        THEN LET channel == fm_get_bits(status, READCHAN_BITS, READCHAN_LSB)
             IN  [m |-> [m1 EXCEPT !.radio.frequency =
                                       fm_channel_to_frequency(channel, m1.radio.frequency_range),
                                   !.radio.async.resume_time = t + SEEK_POLL_INTERVAL_MS * 1000],
                  done |-> FALSE, result |-> 0]
        ELSE LET result == IF cancel THEN -1 ELSE 0
                 m2 == [m1 EXCEPT !.radio.regs[2] = fm_set_bit(@, SEEK_BIT, FALSE)]
                 m3 == fm_write_single_register(m2, 2, faults)
                 m4 == fm_read_single_register(m3, 10, faults)
                 channel == fm_get_bits(m4.radio.regs[10], READCHAN_BITS, READCHAN_LSB)
             IN  [m |-> [m4 EXCEPT !.radio.frequency =
                                       fm_channel_to_frequency(channel, m4.radio.frequency_range)],
                  done |-> TRUE, result |-> result]

\* A seek step that leaves the frequency alone until the seek is complete, as the
\* step of a tune does.
fm_seek_async_task_silent(m, cancel, faults, t) ==
    LET m1 == IF cancel THEN m ELSE fm_read_single_register(m, 10, faults)
        status == m1.radio.regs[10]
    IN  IF ~cancel /\ ~fm_get_bit(status, STC_BIT)
        THEN LET channel == fm_get_bits(status, READCHAN_BITS, READCHAN_LSB)
             IN  [m |-> [m1 EXCEPT !.radio.async.resume_time = t + SEEK_POLL_INTERVAL_MS * 1000],
                  done |-> FALSE, result |-> 0]
        ELSE LET result == IF cancel \/ fm_get_bit(status, SEEKFAIL_BIT) THEN -1 ELSE 0
                 m2 == [m1 EXCEPT !.radio.regs[2] = fm_set_bit(@, SEEK_BIT, FALSE)]
                 m3 == fm_write_single_register(m2, 2, faults)
                 m4 == fm_read_single_register(m3, 10, faults)
                 channel == fm_get_bits(m4.radio.regs[10], READCHAN_BITS, READCHAN_LSB)
             IN  [m |-> [m4 EXCEPT !.radio.frequency =
                                       fm_channel_to_frequency(channel, m4.radio.frequency_range)],
                  done |-> TRUE, result |-> result]

\* fm_seek_async_task(radio, cancel), called at time t
fm_seek_async_task(m, cancel, faults, t) ==
    LET m1 == IF cancel THEN m ELSE fm_read_single_register(m, 10, faults)
        status == m1.radio.regs[10]
    IN  IF ~cancel /\ ~fm_get_bit(status, STC_BIT)
        THEN LET channel == fm_get_bits(status, READCHAN_BITS, READCHAN_LSB)
             IN  [m |-> [m1 EXCEPT !.radio.frequency =
                                       fm_channel_to_frequency(channel, m1.radio.frequency_range),
                                   !.radio.async.resume_time = t + SEEK_POLL_INTERVAL_MS * 1000],
                  done |-> FALSE, result |-> 0]
        ELSE LET result == IF cancel \/ fm_get_bit(status, SEEKFAIL_BIT) THEN -1 ELSE 0
                 m2 == [m1 EXCEPT !.radio.regs[2] = fm_set_bit(@, SEEK_BIT, FALSE)]
                 m3 == fm_write_single_register(m2, 2, faults)
                 m4 == fm_read_single_register(m3, 10, faults)
                 channel == fm_get_bits(m4.radio.regs[10], READCHAN_BITS, READCHAN_LSB)
             IN  [m |-> [m4 EXCEPT !.radio.frequency =
                                       fm_channel_to_frequency(channel, m4.radio.frequency_range)],
                  done |-> TRUE, result |-> result]

\* fm_seek_async(radio, direction), called at time t
fm_seek_async(m, direction, faults, t) ==
    LET m1 == [m EXCEPT !.radio.regs[2] =
                   fm_set_bit(fm_set_bit(fm_set_bit(@, SKMODE_BIT, FALSE),
                                         SEEKUP_BIT, direction = "FM_SEEK_UP"),
                              SEEK_BIT, TRUE)]
        m2 == fm_write_single_register(m1, 2, faults)
    IN  [m2 EXCEPT !.radio.async =
            [task |-> "fm_seek_async_task", state |-> 1,
             resume_time |-> t + SEEK_POLL_INTERVAL_MS * 1000]]

\* radio->async.task(radio, cancel): the call through the stored function pointer
RunTask(m, cancel, faults, t) ==
    IF m.radio.async.task = "fm_set_frequency_async_task"
    THEN fm_set_frequency_async_task(m, cancel, faults, t)
    ELSE fm_seek_async_task(m, cancel, faults, t)

\* A tick that leaves the task in its slot when the step reports done.
fm_async_task_tick_keeps(m, faults, t) ==
    IF t < m.radio.async.resume_time
    THEN [m |-> m, done |-> FALSE, result |-> 0]
    ELSE RunTask(m, FALSE, faults, t)

\* A tick that runs the step without comparing the clock with resume_time.
fm_async_task_tick_eager(m, faults, t) ==
    LET progress == RunTask(m, FALSE, faults, t)
    IN  IF progress.done
        THEN [progress EXCEPT !.m.radio.async = NoTask]
        ELSE progress

\* fm_async_task_tick(radio), called at time t with a task in flight
fm_async_task_tick(m, faults, t) ==
    IF t < m.radio.async.resume_time
    THEN [m |-> m, done |-> FALSE, result |-> 0]
    ELSE LET progress == RunTask(m, FALSE, faults, t)
         IN  IF progress.done
             THEN [progress EXCEPT !.m.radio.async = NoTask]
             ELSE progress

\* A cancel that runs the step without the cancel flag, as a tick does.
fm_async_task_cancel_polls(m, faults, t) ==
    [RunTask(m, FALSE, faults, t).m EXCEPT !.radio.async = NoTask]

\* fm_async_task_cancel(radio), called at time t with a task in flight
fm_async_task_cancel(m, faults, t) ==
    [RunTask(m, TRUE, faults, t).m EXCEPT !.radio.async = NoTask]

----------------------------------------------------------------------------
(* Power, setters and queries. *)

\* A power up that leaves the volume field of register 0x5 at the value read from the chip.
fm_power_up_default_volume(m, config, faults) ==
    LET m0 == [m EXCEPT !.radio.config = config,
                        !.radio.frequency_range =
                            fm_frequency_range(config.band, config.channel_spacing),
                        !.radio.regs = [i \in 0..15 |-> 0]]
        m1 == fm_read_single_register(m0, 0, faults)
    IN  IF ~LastTransferOk(m1) THEN [m |-> m1, status |-> "panic"]
        ELSE IF m1.radio.regs[0] # CHIP_ID THEN [m |-> m1, status |-> "assert"]
        ELSE
        LET \* reset
            m2 == fm_write_single_register(
                      [m1 EXCEPT !.radio.regs[2] = BitOr(ENABLE_BIT, SOFT_RESET_BIT)], 2, faults)
            \* clear reset bit
            m3 == fm_write_single_register([m2 EXCEPT !.radio.regs[2] = ENABLE_BIT], 2, faults)
            \* initialize control registers
            m4 == fm_read_single_register(m3, 3, faults)
            m5 == fm_read_single_register(m4, 4, faults)
            m6 == fm_read_single_register(m5, 5, faults)
            m7 == fm_read_single_register(m6, 6, faults)
            m8 == fm_read_single_register(m7, 7, faults)
            m9 == fm_read_single_register(m8, 8, faults)
            r == m9.radio
            \* setup
            regs1 == [m9.radio.regs EXCEPT
                        ![2] = fm_set_bit(fm_set_bit(fm_set_bit(fm_set_bit(fm_set_bit(fm_set_bit(@,
                                   NEW_METHOD_BIT, TRUE), RDS_EN_BIT, TRUE), BASS_BIT, r.bass_boost),
                                   MONO_BIT, r.mono), DMUTE_BIT, ~r.mute), DHIZ_BIT, TRUE),
                        ![3] = fm_set_bits(@, CHAN_BITS, CHAN_LSB, 0),
                        ![4] = fm_set_bit(fm_set_bit(@, SOFTMUTE_EN_BIT, r.softmute),
                                          DE_BIT, config.deemphasis = "FM_DEEMPHASIS_50"),
                        ![5] = @]
            regs2 == fm_set_channel_spacing_bits(fm_set_band_bits(regs1, config.band),
                                                 config.channel_spacing)
            m10 == fm_write_registers_up_to([m9 EXCEPT !.radio.regs = regs2], 8, faults)
        IN  [m |-> m10, status |-> "ok"]

\* A power up without the comparison of register 0x0 with the chip identity.
fm_power_up_unverified(m, config, faults) ==
    LET m0 == [m EXCEPT !.radio.config = config,
                        !.radio.frequency_range =
                            fm_frequency_range(config.band, config.channel_spacing),
                        !.radio.regs = [i \in 0..15 |-> 0]]
        m1 == fm_read_single_register(m0, 0, faults)
    IN  IF ~LastTransferOk(m1) THEN [m |-> m1, status |-> "panic"]
        ELSE
        LET \* reset
            m2 == fm_write_single_register(
                      [m1 EXCEPT !.radio.regs[2] = BitOr(ENABLE_BIT, SOFT_RESET_BIT)], 2, faults)
            \* clear reset bit
            m3 == fm_write_single_register([m2 EXCEPT !.radio.regs[2] = ENABLE_BIT], 2, faults)
            \* initialize control registers
            m4 == fm_read_single_register(m3, 3, faults)
            m5 == fm_read_single_register(m4, 4, faults)
            m6 == fm_read_single_register(m5, 5, faults)
            m7 == fm_read_single_register(m6, 6, faults)
            m8 == fm_read_single_register(m7, 7, faults)
            m9 == fm_read_single_register(m8, 8, faults)
            r == m9.radio
            \* setup
            regs1 == [m9.radio.regs EXCEPT
                        ![2] = fm_set_bit(fm_set_bit(fm_set_bit(fm_set_bit(fm_set_bit(fm_set_bit(@,
                                   NEW_METHOD_BIT, TRUE), RDS_EN_BIT, TRUE), BASS_BIT, r.bass_boost),
                                   MONO_BIT, r.mono), DMUTE_BIT, ~r.mute), DHIZ_BIT, TRUE),
                        ![3] = fm_set_bits(@, CHAN_BITS, CHAN_LSB, 0),
                        ![4] = fm_set_bit(fm_set_bit(@, SOFTMUTE_EN_BIT, r.softmute),
                                          DE_BIT, config.deemphasis = "FM_DEEMPHASIS_50"),
                        ![5] = fm_set_bits(@, VOLUME_BITS, VOLUME_LSB, r.volume)]
            regs2 == fm_set_channel_spacing_bits(fm_set_band_bits(regs1, config.band),
                                                 config.channel_spacing)
            m10 == fm_write_registers_up_to([m9 EXCEPT !.radio.regs = regs2], 8, faults)
        IN  [m |-> m10, status |-> "ok"]

\* fm_power_up(radio, config) from its start to the batched configuration write.
\* Returns the machine and how far the call came: "panic" (the identity read failed),
\* "assert" (the identity is wrong) or "ok".
fm_power_up(m, config, faults) ==
    LET m0 == [m EXCEPT !.radio.config = config,
                        !.radio.frequency_range =
                            fm_frequency_range(config.band, config.channel_spacing),
                        !.radio.regs = [i \in 0..15 |-> 0]]
        m1 == fm_read_single_register(m0, 0, faults)
    IN  IF ~LastTransferOk(m1) THEN [m |-> m1, status |-> "panic"]
        ELSE IF m1.radio.regs[0] # CHIP_ID THEN [m |-> m1, status |-> "assert"]
        ELSE
        LET \* reset
            m2 == fm_write_single_register(
                      [m1 EXCEPT !.radio.regs[2] = BitOr(ENABLE_BIT, SOFT_RESET_BIT)], 2, faults)
            \* clear reset bit
            m3 == fm_write_single_register([m2 EXCEPT !.radio.regs[2] = ENABLE_BIT], 2, faults)
            \* initialize control registers
            m4 == fm_read_single_register(m3, 3, faults)
            m5 == fm_read_single_register(m4, 4, faults)
            m6 == fm_read_single_register(m5, 5, faults)
            m7 == fm_read_single_register(m6, 6, faults)
            m8 == fm_read_single_register(m7, 7, faults)
            m9 == fm_read_single_register(m8, 8, faults)
            r == m9.radio
            \* setup
            regs1 == [m9.radio.regs EXCEPT
                        ![2] = fm_set_bit(fm_set_bit(fm_set_bit(fm_set_bit(fm_set_bit(fm_set_bit(@,
                                   NEW_METHOD_BIT, TRUE), RDS_EN_BIT, TRUE), BASS_BIT, r.bass_boost),
                                   MONO_BIT, r.mono), DMUTE_BIT, ~r.mute), DHIZ_BIT, TRUE),
                        ![3] = fm_set_bits(@, CHAN_BITS, CHAN_LSB, 0),
                        ![4] = fm_set_bit(fm_set_bit(@, SOFTMUTE_EN_BIT, r.softmute),
                                          DE_BIT, config.deemphasis = "FM_DEEMPHASIS_50"),
                        ![5] = fm_set_bits(@, VOLUME_BITS, VOLUME_LSB, r.volume)]
            regs2 == fm_set_channel_spacing_bits(fm_set_band_bits(regs1, config.band),
                                                 config.channel_spacing)
            m10 == fm_write_registers_up_to([m9 EXCEPT !.radio.regs = regs2], 8, faults)
        IN  [m |-> m10, status |-> "ok"]

\* A power down that writes register 0x2 as zero instead of clearing ENABLE in it.
fm_power_down_zero(m, faults, t) ==
    LET m1 == IF m.radio.async.task # "NULL" THEN fm_async_task_cancel(m, faults, t) ELSE m
        m2 == [m1 EXCEPT !.radio.regs[2] = 0]
    IN  fm_write_single_register(m2, 2, faults)

\* fm_power_down(radio), called at time t
fm_power_down(m, faults, t) ==
    LET m1 == IF m.radio.async.task # "NULL" THEN fm_async_task_cancel(m, faults, t) ELSE m
        m2 == [m1 EXCEPT !.radio.regs[2] = fm_set_bit(@, ENABLE_BIT, FALSE)]
    IN  fm_write_single_register(m2, 2, faults)

\* fm_set_seek_threshold(radio, seek_threshold)
fm_set_seek_threshold(m, seek_threshold, faults) ==
    LET clamped == MIN(seek_threshold, FM_MAX_SEEK_THRESHOLD)
    IN  IF clamped = m.radio.seek_threshold THEN m
        ELSE LET m1 == [m EXCEPT !.radio.regs[5] = fm_set_bits(@, SEEKTH_BITS, SEEKTH_LSB, clamped)]
                 m2 == fm_write_single_register(m1, 5, faults)
             IN  [m2 EXCEPT !.radio.seek_threshold = clamped]

\* fm_set_mute(radio, mute)
fm_set_mute(m, mute, faults) ==
    IF m.radio.mute = mute THEN m
    ELSE LET m1 == [m EXCEPT !.radio.regs[2] = fm_set_bit(@, DMUTE_BIT, ~mute)]
             m2 == fm_write_single_register(m1, 2, faults)
         IN  [m2 EXCEPT !.radio.mute = mute]

\* fm_set_softmute(radio, softmute)
fm_set_softmute(m, softmute, faults) ==
    IF m.radio.softmute = softmute THEN m
    ELSE LET m1 == [m EXCEPT !.radio.regs[4] = fm_set_bit(@, SOFTMUTE_EN_BIT, softmute)]
             m2 == fm_write_registers_up_to(m1, 4, faults)
         IN  [m2 EXCEPT !.radio.softmute = softmute]

\* fm_set_bass_boost(radio, bass_boost)
fm_set_bass_boost(m, bass_boost, faults) ==
    IF m.radio.bass_boost = bass_boost THEN m
    ELSE LET m1 == [m EXCEPT !.radio.regs[2] = fm_set_bit(@, BASS_BIT, bass_boost)]
             m2 == fm_write_single_register(m1, 2, faults)
         IN  [m2 EXCEPT !.radio.bass_boost = bass_boost]

\* fm_set_mono(radio, mono)
fm_set_mono(m, mono, faults) ==
    IF m.radio.mono = mono THEN m
    ELSE LET m1 == [m EXCEPT !.radio.regs[2] = fm_set_bit(@, MONO_BIT, mono)]
             m2 == fm_write_single_register(m1, 2, faults)
         IN  [m2 EXCEPT !.radio.mono = mono]

\* A volume setter without the comparison with the volume in effect.
fm_set_volume_always(m, volume, faults) ==
    LET clamped == MIN(volume, FM_MAX_VOLUME)
        m1 == [m EXCEPT !.radio.regs[5] = fm_set_bits(@, VOLUME_BITS, VOLUME_LSB, clamped)]
        m2 == fm_write_single_register(m1, 5, faults)
    IN  [m2 EXCEPT !.radio.volume = clamped]

\* A volume setter without the clamp to FM_MAX_VOLUME.
fm_set_volume_unclamped(m, volume, faults) ==
    IF volume = m.radio.volume THEN m
    ELSE LET m1 == [m EXCEPT !.radio.regs[5] = fm_set_bits(@, VOLUME_BITS, VOLUME_LSB, volume)]
             m2 == fm_write_single_register(m1, 5, faults)
         IN  [m2 EXCEPT !.radio.volume = volume]

\* fm_set_volume(radio, volume)
fm_set_volume(m, volume, faults) ==
    LET clamped == MIN(volume, FM_MAX_VOLUME)
    IN  IF clamped = m.radio.volume THEN m
        ELSE LET m1 == [m EXCEPT !.radio.regs[5] = fm_set_bits(@, VOLUME_BITS, VOLUME_LSB, clamped)]
                 m2 == fm_write_single_register(m1, 5, faults)
             IN  [m2 EXCEPT !.radio.volume = clamped]

\* fm_get_rssi(radio): the machine and the value returned
fm_get_rssi(m, faults) ==
    LET m1 == fm_read_single_register(m, 11, faults)
    IN  [m |-> m1, ret |-> fm_get_bits(m1.radio.regs[11], RSSI_BITS, RSSI_LSB) % 256]

\* fm_get_stereo_indicator(radio): the machine and the value returned
fm_get_stereo_indicator(m, faults) ==
    LET m1 == fm_read_single_register(m, 10, faults)
    IN  [m |-> m1, ret |-> fm_get_bit(m1.radio.regs[10], ST_BIT)]

\* A read of a data group that copies the four words out whether or not the
\* data-ready flag is set.
fm_read_rds_group_unready(m, faults) ==
    LET m1 == fm_read_registers_up_to(m, 15, faults)
        rdsr == fm_get_bit(m1.radio.regs[10], RDSR_BIT)
    IN  [m |-> m1, ret |-> rdsr, blocks |-> [i \in 1..4 |-> m1.radio.regs[11 + i]]]

\* fm_read_rds_group(radio, blocks): the machine, the value returned and the blocks
\* written (<<>> when the output buffer is left alone)
fm_read_rds_group(m, faults) ==
    LET m1 == fm_read_registers_up_to(m, 15, faults)
        rdsr == fm_get_bit(m1.radio.regs[10], RDSR_BIT)
    IN  [m |-> m1, ret |-> rdsr,
         blocks |-> IF rdsr THEN [i \in 1..4 |-> m1.radio.regs[11 + i]] ELSE <<>>]

----------------------------------------------------------------------------
(* Inputs. *)

\* The sets of transfers of one call that fail: i2c_read_blocking or
\* i2c_write_blocking returns an error for the transfers at these positions.
FaultSets == SUBSET (1..MaxFaultPos)

\* A bus on which every transfer succeeds.
NoFaults == {{}}

\* The identity the chip on the bus reports in register 0x0.
ChipIds == {CHIP_ID, 22536}

Configs == {fm_config_europe, fm_config_usa}

\* Requested frequencies in kHz: 101.0 MHz.
TuneRequests == {101000}

\* Every band with every channel spacing.
BandConfigs ==
    [band : fm_band_t, channel_spacing : fm_channel_spacing_t, deemphasis : {"FM_DEEMPHASIS_50"}]

\* Requested frequencies in kHz: below every band, above every band, band edges,
\* on the channel grid, off it, and half way between two channels.
BandRequests == {40000, 65030, 76000, 87050, 87125, 101000, 101040, 108000, 120000}

fm_seek_direction_t == {"FM_SEEK_DOWN", "FM_SEEK_UP"}

\* uint8_t arguments of fm_set_volume and fm_set_seek_threshold
VolumeArgs == {0, 255}

SeekThresholdArgs == {8, 255}

\* Channels the tuner passes through while it operates.
HwChannels == {7}

\* The clock readings explored.
ClockInBound(t) ==
    /\ t \div (SEEK_POLL_INTERVAL_MS * 1000) <= MaxLongSleeps
    /\ (t % (SEEK_POLL_INTERVAL_MS * 1000)) \div (TUNE_POLL_INTERVAL_MS * 1000) <= MaxShortSleeps

\* The durations a sleep may last: the two poll intervals.
SleepSteps == {TUNE_POLL_INTERVAL_MS * 1000, SEEK_POLL_INTERVAL_MS * 1000}

----------------------------------------------------------------------------
(* The RDS decoder state. *)

\* rds_parser_reset(parser): memset(parser, 0, sizeof(rds_parser_t))
rds_parser_reset ==
    [pi |-> 0, pty |-> 0, tp |-> FALSE, ta |-> FALSE, ms |-> FALSE,
     di |-> 0, di_scratch |-> 0,
     ps_str |-> [i \in 0..8 |-> 0],
     ps_scratch_str |-> [i \in 0..8 |-> 0],
     rt_str |-> [i \in 0..64 |-> 0],
     rt_scratch_str |-> [i \in 0..64 |-> 0],
     rt_a_b |-> FALSE, rt_scratch_a_b |-> FALSE,
     alt_freq |-> [i \in 0..24 |-> 0],
     alt_freq_count |-> 0]

\* rds_get_group_pi(group)
rds_get_group_pi(group) == group.a

\* rds_get_group_type(group): group->b >> 12
rds_get_group_type(group) == Shr(group.b, 12)

\* rds_get_group_version(group): (group->b >> 11) & 0x01
rds_get_group_version(group) == Shr(group.b, 11) % 2

\* rds_get_group_tp(group): ((group->b >> 10) & 0x01) != 0
rds_get_group_tp(group) == Shr(group.b, 10) % 2 # 0

\* rds_get_group_pty(group): (group->b >> 5) & 0x1F
rds_get_group_pty(group) == Shr(group.b, 5) % 32

RDS_GROUP_BASIC == 0

RDS_GROUP_RT == 2

\* A station-name step that commits on address 2 instead of address 3.
rds_parse_group_basic_ps_early(p, group) ==
    LET address == group.b % 4
        char_index == 2 * address
        ch0 == Shr(group.d, 8)
        ch1 == group.d % 256
        scratch == [p.ps_scratch_str EXCEPT ![char_index] = ch0, ![char_index + 1] = ch1]
        finished == (address = 2)
    IN  [p EXCEPT !.ps_scratch_str = scratch,
                  !.ps_str = IF finished
                             THEN [i \in 0..8 |-> IF i < 8 THEN scratch[i] ELSE @[i]]
                             ELSE @]

\* A station-name step that writes its two characters one position further on.
rds_parse_group_basic_ps_shifted(p, group) ==
    LET address == group.b % 4
        char_index == 2 * address + 1
        ch0 == Shr(group.d, 8)
        ch1 == group.d % 256
        scratch == [p.ps_scratch_str EXCEPT ![char_index] = ch0, ![char_index + 1] = ch1]
        finished == (address = 3)
    IN  [p EXCEPT !.ps_scratch_str = scratch,
                  !.ps_str = IF finished
                             THEN [i \in 0..8 |-> IF i < 8 THEN scratch[i] ELSE @[i]]
                             ELSE @]

\* rds_parse_group_basic_ps(parser, group); a char is kept as its byte
rds_parse_group_basic_ps(p, group) ==
    LET address == group.b % 4
        char_index == 2 * address
        ch0 == Shr(group.d, 8)
        ch1 == group.d % 256
        scratch == [p.ps_scratch_str EXCEPT ![char_index] = ch0, ![char_index + 1] = ch1]
        finished == (address = 3)
    IN  [p EXCEPT !.ps_scratch_str = scratch,
                  !.ps_str = IF finished
                             THEN [i \in 0..8 |-> IF i < 8 THEN scratch[i] ELSE @[i]]
                             ELSE @]

\* A decoder-identification step that takes the fragment address for the bit index.
rds_parse_group_basic_di_reversed(p, group) ==
    LET di_bit_index == group.b % 4
        di_bit == Shr(group.b, 2) % 2
        mask == 2 ^ di_bit_index
        cleared == IF (p.di_scratch \div mask) % 2 = 1 THEN p.di_scratch - mask ELSE p.di_scratch
        scratch == cleared + di_bit * mask
        finished == (di_bit_index = 0)
    IN  [p EXCEPT !.di_scratch = scratch,
                  !.di = IF finished THEN scratch ELSE @]

\* rds_parse_group_basic_di(parser, group)
rds_parse_group_basic_di(p, group) ==
    LET di_bit_index == 3 - (group.b % 4)
        di_bit == Shr(group.b, 2) % 2
        mask == 2 ^ di_bit_index
        cleared == IF (p.di_scratch \div mask) % 2 = 1 THEN p.di_scratch - mask ELSE p.di_scratch
        scratch == cleared + di_bit * mask
        finished == (di_bit_index = 0)
    IN  [p EXCEPT !.di_scratch = scratch,
                  !.di = IF finished THEN scratch ELSE @]

\* An alternative-frequency step that does not look for the byte in the list.
rds_add_alt_freq_dup(p, alt_freq) ==
    IF alt_freq = 0 \/ 205 <= alt_freq THEN p
    ELSE IF p.alt_freq_count = 25 THEN p
    ELSE [p EXCEPT !.alt_freq[p.alt_freq_count] = alt_freq,
                   !.alt_freq_count = @ + 1]

\* rds_add_alt_freq(parser, alt_freq)
rds_add_alt_freq(p, alt_freq) ==
    IF alt_freq = 0 \/ 205 <= alt_freq THEN p
    ELSE IF p.alt_freq_count = 25 THEN p
    ELSE IF \E i \in 0..(p.alt_freq_count - 1) : p.alt_freq[i] = alt_freq THEN p
    ELSE [p EXCEPT !.alt_freq[p.alt_freq_count] = alt_freq,
                   !.alt_freq_count = @ + 1]

\* rds_parse_group_basic_alt_freq(parser, group)
rds_parse_group_basic_alt_freq(p, group) ==
    IF rds_get_group_version(group) # 0 THEN p
    ELSE LET f0 == Shr(group.c, 8)
             f1 == group.c % 256
         IN  rds_add_alt_freq(rds_add_alt_freq(p, f0), f1)

\* A basic-group step that also takes the traffic-announcement flag from bit 4
\* and the music/speech flag from bit 3 of word b.
rds_parse_group_basic_flags(p, group) ==
    LET q == rds_parse_group_basic_alt_freq(
                 rds_parse_group_basic_di(rds_parse_group_basic_ps(p, group), group), group)
    IN  [q EXCEPT !.ta = (Shr(group.b, 4) % 2 = 1), !.ms = (Shr(group.b, 3) % 2 = 1)]

\* rds_parse_group_basic(parser, group), with alternative frequencies enabled
rds_parse_group_basic(p, group) ==
    rds_parse_group_basic_alt_freq(
        rds_parse_group_basic_di(rds_parse_group_basic_ps(p, group), group), group)

\* The loop of rds_parse_group_rt from character i on: the scratch string and
\* whether a terminating condition was met.
RECURSIVE RtCopy(_, _, _, _)
RtCopy(str, chars, i, char_index) ==
    IF i > Len(chars) THEN [str |-> str, finished |-> FALSE]
    ELSE IF chars[i] = 13
    THEN [str |-> [str EXCEPT ![char_index] = 0], finished |-> TRUE]
    ELSE LET written == [str EXCEPT ![char_index] = chars[i]]
         IN  IF char_index + 1 = 64
             THEN [str |-> written, finished |-> TRUE]
             ELSE RtCopy(written, chars, i + 1, char_index + 1)

\* A radio-text step that does not leave its loop at a carriage return: it goes on
\* to copy the characters that follow it in the group.
rds_parse_group_rt_nobreak(p, group) ==
    LET version == rds_get_group_version(group)
        address == group.b % 16
        a_b == Shr(group.b, 4) % 2 # 0
        chars == IF version = 0
                 THEN <<Shr(group.c, 8), group.c % 256, Shr(group.d, 8), group.d % 256>>
                 ELSE <<Shr(group.d, 8), group.d % 256>>
        char_index == IF version = 0 THEN address * 4 ELSE address * 2
        str == [i \in 0..64 |->
                   IF i \in char_index..(char_index + Len(chars) - 1)
                   THEN (IF chars[i - char_index + 1] = 13 THEN 0 ELSE chars[i - char_index + 1])
                   ELSE p.rt_scratch_str[i]]
        finished == (\E i \in 1..Len(chars) : chars[i] = 13) \/ char_index + Len(chars) = 64
    IN  [p EXCEPT !.rt_scratch_a_b = a_b,
                  !.rt_scratch_str = str,
                  !.rt_str = IF finished
                             THEN [i \in 0..64 |-> IF i < 64 THEN str[i] ELSE @[i]]
                             ELSE @,
                  !.rt_a_b = IF finished THEN a_b ELSE @]

\* A radio-text step that makes the scratch buffer public on every group.
rds_parse_group_rt_eager(p, group) ==
    LET version == rds_get_group_version(group)
        address == group.b % 16
        a_b == Shr(group.b, 4) % 2 # 0
        chars == IF version = 0
                 THEN <<Shr(group.c, 8), group.c % 256, Shr(group.d, 8), group.d % 256>>
                 ELSE <<Shr(group.d, 8), group.d % 256>>
        char_index == IF version = 0 THEN address * 4 ELSE address * 2
        copy == RtCopy(p.rt_scratch_str, chars, 1, char_index)
    IN  [p EXCEPT !.rt_scratch_a_b = a_b,
                  !.rt_scratch_str = copy.str,
                  !.rt_str = IF TRUE
                             THEN [i \in 0..64 |-> IF i < 64 THEN copy.str[i] ELSE @[i]]
                             ELSE @,
                  !.rt_a_b = IF TRUE THEN a_b ELSE @]

\* rds_parse_group_rt(parser, group), with radio text enabled
rds_parse_group_rt(p, group) ==
    LET version == rds_get_group_version(group)
        address == group.b % 16
        a_b == Shr(group.b, 4) % 2 # 0
        chars == IF version = 0
                 THEN <<Shr(group.c, 8), group.c % 256, Shr(group.d, 8), group.d % 256>>
                 ELSE <<Shr(group.d, 8), group.d % 256>>
        char_index == IF version = 0 THEN address * 4 ELSE address * 2
        copy == RtCopy(p.rt_scratch_str, chars, 1, char_index)
    IN  [p EXCEPT !.rt_scratch_a_b = a_b,
                  !.rt_scratch_str = copy.str,
                  !.rt_str = IF copy.finished
                             THEN [i \in 0..64 |-> IF i < 64 THEN copy.str[i] ELSE @[i]]
                             ELSE @,
                  !.rt_a_b = IF copy.finished THEN a_b ELSE @]

\* An update that takes every group that is not radio text for a basic group.
rds_parser_update_basic(p, group) ==
    LET p1 == [p EXCEPT !.pi = rds_get_group_pi(group),
                        !.pty = rds_get_group_pty(group),
                        !.tp = rds_get_group_tp(group)]
        type == rds_get_group_type(group)
    IN  IF type = RDS_GROUP_RT THEN rds_parse_group_rt(p1, group)
        ELSE rds_parse_group_basic(p1, group)

\* rds_parser_update(parser, group)
rds_parser_update(p, group) ==
    LET p1 == [p EXCEPT !.pi = rds_get_group_pi(group),
                        !.pty = rds_get_group_pty(group),
                        !.tp = rds_get_group_tp(group)]
        type == rds_get_group_type(group)
    IN  IF type = RDS_GROUP_BASIC THEN rds_parse_group_basic(p1, group)
        ELSE IF type = RDS_GROUP_RT THEN rds_parse_group_rt(p1, group)
        ELSE p1

----------------------------------------------------------------------------
(* The driver's calls as steps. *)

\* fm_init(radio, ...): memset to zero, then the three defaults
fm_init ==
    [config |-> ZeroConfig,
     frequency_range |-> [bottom |-> 0, top |-> 0, spacing |-> 0],
     seek_threshold |-> 8,
     frequency |-> 0,
     volume |-> 0,
     mute |-> TRUE,
     softmute |-> TRUE,
     bass_boost |-> FALSE,
     mono |-> FALSE,
     regs |-> [i \in 0..15 |-> 0],
     async |-> NoTask]

\* How many of the six settings differ from their fm_init values.
ChangedSettings(r) ==
    Cardinality({s \in {"seek_threshold", "volume", "mute", "softmute", "bass_boost", "mono"} :
                    r[s] # fm_init[s]})

SettingsInBound(r) == ChangedSettings(r) <= MaxChangedSettings

\* The machine at the start of a step: bus collects the transfers of the step.
Machine == [radio |-> radio, chip |-> chip, bus |-> <<>>, n |-> 0]

Called(op, arg, status, ret) == [op |-> op, arg |-> arg, status |-> status, ret |-> ret]

\* The step ends at time t with machine m.  The driver reads the clock only to
\* compare it with resume_time and to set resume_time = time_us_64() + interval,
\* so the clock is counted from the instant the task in flight last ran (its
\* start or its last step), and from 0 while no task is in flight.
Commit(m, c, next_pc, t) ==
    \E end \in {m} :
        LET ran == end.radio.async # radio.async
        IN  /\ radio' = IF ran /\ end.radio.async.task # "NULL"
                        THEN [end.radio EXCEPT !.async.resume_time = @ - t]
                        ELSE end.radio
            /\ chip' = end.chip
            /\ bus' = end.bus
            /\ call' = c
            /\ pc' = next_pc
            /\ now' = IF ran THEN 0 ELSE t
            /\ UNCHANGED parser

\* An assert() at the head of a call fails: the program stops.
Abort(op) ==
    /\ pc' = "aborted"
    /\ call' = Called(op, "none", "assert", "none")
    /\ bus' = <<>>
    /\ UNCHANGED <<radio, chip, now, parser>>

\* assert(fm_is_powered_up(radio)); assert(radio->async.task == NULL);
CanSet == fm_is_powered_up(radio) /\ radio.async.task = "NULL"

Init ==
    /\ radio = fm_init
    /\ chip \in {[ChipDefaults EXCEPT ![0] = id] : id \in ChipIds}
    /\ now = 0
    /\ pc = "ready"
    /\ call = Called("fm_init", "none", "ok", "none")
    /\ bus = <<>>
    /\ parser = rds_parser_reset

\* fm_power_up(radio, config).  No task is in flight while it sleeps.
PowerUp(config, faults) ==
    /\ pc = "ready"
    /\ IF fm_is_powered_up(radio) THEN Abort("fm_power_up")
       ELSE LET up == fm_power_up(Machine, config, faults)
                f == up.m.radio.frequency
            IN  IF up.status # "ok"
                THEN Commit(up.m, Called("fm_power_up", config, up.status, "none"),
                            IF up.status = "panic" THEN "panic" ELSE "aborted", now)
                ELSE IF f # 0
                THEN \* fm_set_frequency_blocking(radio, frequency): f # 0 = radio->frequency
                     Commit(fm_set_frequency_async(
                                [up.m EXCEPT !.radio.frequency = 0], f, faults, now),
                            Called("fm_power_up", config, "running", "none"),
                            "fm_set_frequency_blocking", now)
                ELSE Commit(up.m, Called("fm_power_up", config, "ok", "none"), "ready", now)

\* fm_power_down(radio)
PowerDown(faults) ==
    /\ pc = "ready"
    /\ IF ~fm_is_powered_up(radio) THEN Abort("fm_power_down")
       ELSE Commit(fm_power_down(Machine, faults, now),
                   Called("fm_power_down", "none", "ok", "none"), "ready", now)

\* fm_set_frequency_async(radio, frequency)
SetFrequencyAsync(frequency, faults) ==
    /\ pc = "ready"
    /\ IF ~CanSet THEN Abort("fm_set_frequency_async")
       ELSE Commit(fm_set_frequency_async(Machine, frequency, faults, now),
                   Called("fm_set_frequency_async", frequency, "ok", "none"), "ready", now)

\* fm_set_frequency_blocking(radio, frequency) up to its polling loop
SetFrequencyBlocking(frequency, faults) ==
    /\ pc = "ready"
    /\ IF ~CanSet THEN Abort("fm_set_frequency_blocking")
       ELSE IF radio.frequency = frequency
       THEN Commit(Machine, Called("fm_set_frequency_blocking", frequency, "ok", "none"),
                   "ready", now)
       ELSE Commit(fm_set_frequency_async(Machine, frequency, faults, now),
                   Called("fm_set_frequency_blocking", frequency, "running", "none"),
                   "fm_set_frequency_blocking", now)

\* A seek start without assert(radio->async.task == NULL).
SeekAsync_unchecked(direction, faults) ==
    /\ pc = "ready"
    /\ IF ~fm_is_powered_up(radio) THEN Abort("fm_seek_async")
       ELSE Commit(fm_seek_async(Machine, direction, faults, now),
                   Called("fm_seek_async", direction, "ok", "none"), "ready", now)

\* fm_seek_async(radio, direction)
SeekAsync(direction, faults) ==
    /\ pc = "ready"
    /\ IF ~CanSet THEN Abort("fm_seek_async")
       ELSE Commit(fm_seek_async(Machine, direction, faults, now),
                   Called("fm_seek_async", direction, "ok", "none"), "ready", now)

\* fm_seek_blocking(radio, direction) up to its polling loop
SeekBlocking(direction, faults) ==
    /\ pc = "ready"
    /\ IF ~CanSet THEN Abort("fm_seek_blocking")
       ELSE Commit(fm_seek_async(Machine, direction, faults, now),
                   Called("fm_seek_blocking", direction, "running", "none"),
                   "fm_seek_blocking", now)

\* One round of do { sleep_ms(interval); progress = fm_async_task_tick(radio); }
\* while (!progress.done), in fm_set_frequency_blocking or fm_seek_blocking;
\* the sleep lasts d, at least the interval.
BlockingLoop(d, faults) ==
    /\ pc \in {"fm_set_frequency_blocking", "fm_seek_blocking"}
    /\ d >= 1000 * (IF pc = "fm_set_frequency_blocking"
                    THEN TUNE_POLL_INTERVAL_MS ELSE SEEK_POLL_INTERVAL_MS)
    /\ ClockInBound(now + d)
    /\ \E progress \in {fm_async_task_tick(Machine, faults, now + d)} :
           IF progress.done
           THEN Commit(progress.m,
                       [call EXCEPT !.status = "ok",
                                    !.ret = IF call.op = "fm_seek_blocking"
                                            THEN progress.result = 0 ELSE "none"],
                       "ready", now + d)
           ELSE Commit(progress.m, call, pc, now + d)

\* fm_async_task_tick(radio)
Tick(faults) ==
    /\ pc = "ready"
    /\ IF radio.async.task = "NULL" THEN Abort("fm_async_task_tick")
       ELSE \E progress \in {fm_async_task_tick(Machine, faults, now)} :
                Commit(progress.m,
                       Called("fm_async_task_tick", "none", "ok",
                              [done |-> progress.done, result |-> progress.result]),
                       "ready", now)

\* fm_async_task_cancel(radio)
Cancel(faults) ==
    /\ pc = "ready"
    /\ IF radio.async.task = "NULL" THEN Abort("fm_async_task_cancel")
       ELSE Commit(fm_async_task_cancel(Machine, faults, now),
                   Called("fm_async_task_cancel", "none", "ok", "none"), "ready", now)

\* A setter: the asserts, then the body.
Setter(op, arg, m) ==
    /\ pc = "ready"
    /\ IF ~CanSet THEN Abort(op)
       ELSE /\ SettingsInBound(m.radio)
            /\ Commit(m, Called(op, arg, "ok", "none"), "ready", now)

SetSeekThreshold(v, faults) ==
    Setter("fm_set_seek_threshold", v, fm_set_seek_threshold(Machine, v, faults))

SetMute(v, faults) == Setter("fm_set_mute", v, fm_set_mute(Machine, v, faults))

SetSoftmute(v, faults) == Setter("fm_set_softmute", v, fm_set_softmute(Machine, v, faults))

SetBassBoost(v, faults) == Setter("fm_set_bass_boost", v, fm_set_bass_boost(Machine, v, faults))

SetMono(v, faults) == Setter("fm_set_mono", v, fm_set_mono(Machine, v, faults))

SetVolume(v, faults) == Setter("fm_set_volume", v, fm_set_volume(Machine, v, faults))

\* A query without assert(fm_is_powered_up(radio)).
Query_unchecked(op, q) ==
    /\ pc = "ready"
    /\ Commit(q.m, Called(op, "none", "ok", q.ret), "ready", now)

\* A query: assert(fm_is_powered_up(radio)), then the body.
Query(op, q) ==
    /\ pc = "ready"
    /\ IF ~fm_is_powered_up(radio) THEN Abort(op)
       ELSE Commit(q.m, Called(op, "none", "ok", q.ret), "ready", now)

GetRssi(faults) == Query("fm_get_rssi", fm_get_rssi(Machine, faults))

GetStereoIndicator(faults) ==
    Query("fm_get_stereo_indicator", fm_get_stereo_indicator(Machine, faults))

ReadRdsGroup(faults) ==
    LET q == fm_read_rds_group(Machine, faults)
    IN  Query("fm_read_rds_group", [m |-> q.m, ret |-> [ready |-> q.ret, blocks |-> q.blocks]])

----------------------------------------------------------------------------
(* The environment: the caller's clock and the chip's own progress. *)

\* The caller lets time pass between two calls.  With no task in flight the
\* clock is not read before the next start, and the step is left out.
Sleep(d) ==
    /\ pc = "ready"
    /\ radio.async.task # "NULL"
    /\ ClockInBound(now + d)
    /\ now' = now + d
    /\ UNCHANGED <<radio, chip, pc, call, bus, parser>>

\* The tuner passes channel c on its way.
HwMove(c) ==
    /\ pc \notin {"aborted", "panic"}
    /\ ChipOperating(chip)
    /\ fm_get_bits(chip[10], READCHAN_BITS, READCHAN_LSB) # c
    /\ chip' = [chip EXCEPT ![10] = BitOr(BitAnd(@, BitNot16(READCHAN_BITS)), c)]
    /\ UNCHANGED <<radio, now, pc, call, bus, parser>>

\* The chip completes its operation and raises STC: a tune ends on the channel
\* written to CHAN, a seek on the channel it has reached, with SF as the outcome.
ChipComplete(c, sf) ==
    IF fm_get_bit(c[2], SEEK_BIT)
    THEN [c EXCEPT ![10] = fm_set_bit(fm_set_bit(@, STC_BIT, TRUE), SEEKFAIL_BIT, sf)]
    ELSE [c EXCEPT ![10] = fm_set_bit(BitOr(BitAnd(@, BitNot16(READCHAN_BITS)),
                                            fm_get_bits(c[3], CHAN_BITS, CHAN_LSB)),
                                      STC_BIT, TRUE)]

HwComplete(sf) ==
    /\ pc \notin {"aborted", "panic"}
    /\ ChipOperating(chip)
    /\ fm_get_bit(chip[2], SEEK_BIT) \/ sf = FALSE
    /\ chip' = ChipComplete(chip, sf)
    /\ UNCHANGED <<radio, now, pc, call, bus, parser>>

\* Power up and power down, with transfer faults drawn from F and configurations from C.
PowerStep(F, C) ==
    \/ \E config \in C, faults \in F : PowerUp(config, faults)
    \/ \E faults \in F : PowerDown(faults)

\* The calls of the task engine, with seek directions drawn from D.
TaskStep(F, D) ==
    \/ \E f \in TuneRequests, faults \in F : SetFrequencyAsync(f, faults)
    \/ \E f \in TuneRequests, faults \in F : SetFrequencyBlocking(f, faults)
    \/ \E dir \in D, faults \in F : SeekAsync(dir, faults)
    \/ \E dir \in D, faults \in F : SeekBlocking(dir, faults)
    \/ \E d \in SleepSteps, faults \in F : BlockingLoop(d, faults)
    \/ \E faults \in F : Tick(faults)
    \/ \E faults \in F : Cancel(faults)

SetterStep(F) ==
    \/ \E v \in SeekThresholdArgs, faults \in F : SetSeekThreshold(v, faults)
    \/ \E v \in BOOLEAN, faults \in F : SetMute(v, faults)
    \/ \E v \in BOOLEAN, faults \in F : SetSoftmute(v, faults)
    \/ \E v \in BOOLEAN, faults \in F : SetBassBoost(v, faults)
    \/ \E v \in BOOLEAN, faults \in F : SetMono(v, faults)
    \/ \E v \in VolumeArgs, faults \in F : SetVolume(v, faults)

QueryStep(F) ==
    \/ \E faults \in F : GetRssi(faults)
    \/ \E faults \in F : GetStereoIndicator(faults)
    \/ \E faults \in F : ReadRdsGroup(faults)

EnvStep ==
    \/ \E d \in SleepSteps : Sleep(d)
    \/ \E c \in HwChannels : HwMove(c)
    \/ \E sf \in BOOLEAN : HwComplete(sf)

\* The whole driver on a bus without faults, one configuration, one seek direction.
Next ==
    \/ PowerStep(NoFaults, {fm_config_europe})
    \/ TaskStep(NoFaults, {"FM_SEEK_UP"})
    \/ SetterStep(NoFaults)
    \/ QueryStep(NoFaults)
    \/ EnvStep

Spec == Init /\ [][Next]_vars

\* The task engine with power and queries, without the setters.
NextTask ==
    \/ PowerStep(NoFaults, Configs)
    \/ TaskStep(NoFaults, fm_seek_direction_t)
    \/ QueryStep(NoFaults)
    \/ EnvStep

SpecTask == Init /\ [][NextTask]_vars

\* The task engine, power and the queries on a bus whose transfers may fail.
NextFault ==
    \/ PowerStep(FaultSets, {fm_config_europe})
    \/ TaskStep(FaultSets, {"FM_SEEK_UP"})
    \/ QueryStep(FaultSets)
    \/ EnvStep

SpecFault == Init /\ [][NextFault]_vars

\* Power, the setters and the queries on a bus whose transfers may fail.
NextFaultSet ==
    \/ PowerStep(FaultSets, {fm_config_europe})
    \/ SetterStep(FaultSets)
    \/ QueryStep(FaultSets)

SpecFaultSet == Init /\ [][NextFaultSet]_vars

\* Blocking tunes in every band with every channel spacing, on a tuner that settles
\* on the channel written.
NextTune ==
    \/ PowerStep(NoFaults, BandConfigs)
    \/ \E f \in BandRequests : SetFrequencyBlocking(f, {})
    \/ \E d \in SleepSteps : BlockingLoop(d, {})
    \/ HwComplete(FALSE)

SpecTune == Init /\ [][NextTune]_vars

\* The chip has decoded a group into registers 0xC..0xF and shows it with RDSR,
\* or shows with RDSR clear that the registers hold no new group.
HwRdsGroup(ready, group) ==
    /\ pc \notin {"aborted", "panic"}
    /\ ChipOperating(chip)
    /\ chip' = [chip EXCEPT ![10] = fm_set_bit(@, RDSR_BIT, ready),
                            ![12] = group.a, ![13] = group.b,
                            ![14] = group.c, ![15] = group.d]
    /\ chip' # chip
    /\ UNCHANGED <<radio, now, pc, call, bus, parser>>


----------------------------------------------------------------------------
(* The decoder fed by its caller. *)

\* The transmissions on the air: each sends its station name in four basic groups.
Transmissions == {1, 2}

\* The 8 characters of a transmission's station name: "ABCDEFGH", "IJKLMNOP".
PsName(tx) == [i \in 0..7 |-> 65 + 8 * (tx - 1) + i]

\* The basic group (type 0, version A) of transmission tx for a fragment address:
\* the decoder-identification bit is set in the groups of transmission 1, word c
\* carries two alternative-frequency bytes, word d the two characters.
BasicGroup(tx, address) ==
    [a |-> 4096 * tx + 291,
     b |-> RDS_GROUP_BASIC * 4096 + 32 * tx + (IF tx = 1 THEN 4 ELSE 0) + address,
     c |-> IF tx = 1 THEN 100 * 256 + 205 ELSE 101,
     d |-> PsName(tx)[2 * address] * 256 + PsName(tx)[2 * address + 1]]

BasicGroups == {BasicGroup(tx, address) : tx \in Transmissions, address \in 0..3}

\* A radio-text group (type 2, version A, address 0) "Hi\r " and a group of type 4.
OtherGroups ==
    {[a |-> 4096 + 291, b |-> RDS_GROUP_RT * 4096 + 1024, c |-> 72 * 256 + 105,
      d |-> 13 * 256 + 32],
     [a |-> 8192 + 291, b |-> 4 * 4096 + 2, c |-> 7, d |-> 65 * 256 + 66]}

Groups == BasicGroups \cup OtherGroups

\* rds_parser_update(parser, group), called by the owner of the decoder
RdsUpdate(group) ==
    /\ pc = "ready"
    /\ parser' = rds_parser_update(parser, group)
    /\ call' = Called("rds_parser_update", group, "ok", "none")
    /\ UNCHANGED <<radio, chip, now, pc, bus>>

\* A reset that clears the public fields and leaves the scratch buffers.
RdsReset_public ==
    /\ pc = "ready"
    /\ parser' = [rds_parser_reset EXCEPT !.ps_scratch_str = parser.ps_scratch_str,
                                          !.rt_scratch_str = parser.rt_scratch_str,
                                          !.di_scratch = parser.di_scratch]
    /\ call' = Called("rds_parser_reset", "none", "ok", "none")
    /\ UNCHANGED <<radio, chip, now, pc, bus>>

\* rds_parser_reset(parser)
RdsReset ==
    /\ pc = "ready"
    /\ parser' = rds_parser_reset
    /\ call' = Called("rds_parser_reset", "none", "ok", "none")
    /\ UNCHANGED <<radio, chip, now, pc, bus>>

NextRds ==
    \/ \E group \in Groups : RdsUpdate(group)
    \/ RdsReset

SpecRds == Init /\ [][NextRds]_vars

\* The owner polls for data groups, as update_rds does, between the steps of a
\* tune; the read of the group may fail on the bus.
NextReadGroup ==
    \/ PowerStep(NoFaults, {fm_config_europe})
    \/ \E f \in TuneRequests : SetFrequencyAsync(f, {})
    \/ \E d \in SleepSteps : Sleep(d)
    \/ Tick({})
    \/ HwComplete(FALSE)
    \/ \E d \in SleepSteps : BlockingLoop(d, {})
    \/ \E faults \in {{}, {1}} : ReadRdsGroup(faults)
    \/ \E ready \in BOOLEAN, group \in {BasicGroup(1, 0), BasicGroup(2, 3)} :
           HwRdsGroup(ready, group)

SpecReadGroup == Init /\ [][NextReadGroup]_vars

----------------------------------------------------------------------------
(* Properties of the task engine. *)

StartOps ==
    {"fm_set_frequency_async", "fm_set_frequency_blocking", "fm_seek_async", "fm_seek_blocking"}

SetterOps ==
    {"fm_set_seek_threshold", "fm_set_mute", "fm_set_softmute", "fm_set_bass_boost",
     "fm_set_mono", "fm_set_volume"}

QueryOps == {"fm_get_rssi", "fm_get_stereo_indicator", "fm_read_rds_group"}

TaskKinds == {"fm_set_frequency_async_task", "fm_seek_async_task"}

\* The step is a call of one of ops by the caller (a step of the chip or of the
\* clock leaves call, pc, bus and radio as they are).
CallOf(ops) ==
    /\ pc = "ready"
    /\ call'.op \in ops
    /\ <<call, pc, bus, radio>>' # <<call, pc, bus, radio>>

\* The call of one of ops is made with its preconditions met.
Accepted(ops) == CallOf(ops) /\ call'.status # "assert"

\* The poll interval of a task in microseconds.
PollInterval(task) ==
    IF task = "fm_set_frequency_async_task"
    THEN TUNE_POLL_INTERVAL_MS * 1000 ELSE SEEK_POLL_INTERVAL_MS * 1000

C1_OneTask ==
    /\ radio.async.task \in {"NULL"} \cup TaskKinds
    /\ radio.async.task = "NULL" => radio.async = NoTask
    /\ radio.async.task # "NULL" => radio.async.state = 1

C1_StartRejected ==
    (radio.async.task # "NULL" /\ CallOf(StartOps))
        => /\ pc' = "aborted"
           /\ call'.status = "assert"
           /\ bus' = <<>>
           /\ UNCHANGED <<radio, chip>>

C1_NeverReplaced ==
    radio.async.task # "NULL" => radio'.async.task \in {radio.async.task, "NULL"}

\* C1: at most one task is in flight: the task slot is empty or holds one tune or
\* one seek task in step 1, a task in flight is never replaced by another, and a
\* call of fm_set_frequency_async, fm_set_frequency_blocking, fm_seek_async or
\* fm_seek_blocking made while a task is in flight is stopped by its assert with
\* no transfer on the bus and the driver's state and the chip unchanged.
C1_SingleTask == []C1_OneTask /\ [][C1_StartRejected /\ C1_NeverReplaced]_vars

\* A start call is stopped by its assert while a seek is in flight.
C1_Witness ==
    /\ pc = "aborted"
    /\ call.op \in StartOps
    /\ call.status = "assert"
    /\ radio.async.task = "fm_seek_async_task"

\* A task is started: by a start call, or by fm_power_up calling
\* fm_set_frequency_blocking (fm_rda5807.c line 286).
C3_Start ==
    /\ radio.async = NoTask
    /\ radio'.async.task \in TaskKinds
    /\ radio'.async.state = 1
    /\ pc = "ready"
    /\ call'.op \in StartOps \cup {"fm_power_up"}

\* A tick of the caller or of a blocking call's loop that reports not-done
TickNotDone ==
    \/ Accepted({"fm_async_task_tick"}) /\ ~call'.ret.done
    \/ pc \in {"fm_set_frequency_blocking", "fm_seek_blocking"} /\ pc' = pc /\ bus' # <<>>

\* A tick of the caller or of a blocking call's loop that reports done
TickDone ==
    \/ Accepted({"fm_async_task_tick"}) /\ call'.ret.done
    \/ pc \in {"fm_set_frequency_blocking", "fm_seek_blocking"} /\ pc' = "ready"

\* fm_async_task_cancel, called by the caller or by fm_power_down
Cancelled == Accepted({"fm_async_task_cancel", "fm_power_down"})

C3_Step ==
    /\ radio'.async # radio.async
           => \/ C3_Start
              \/ radio.async.task # "NULL" /\ radio'.async = NoTask /\ (TickDone \/ Cancelled)
    /\ (radio.async.task # "NULL" /\ (TickDone \/ Cancelled)) => radio'.async = NoTask
    /\ TickNotDone => radio'.async.task = radio.async.task /\ radio'.async.state = 1
    /\ CallOf(SetterOps \cup QueryOps) => radio'.async = radio.async

\* C3: the task slot changes only from empty to a task in step 1 by a start call
\* and from a task to empty by a tick that reports done or by a cancel; a tick
\* that reports done and a cancel always empty it, a tick that reports not-done
\* keeps the task's kind and its step 1, and no setter or query changes it.
C3_TaskTransitions == [][C3_Step]_vars

\* A tick has run a step of a seek that is not complete: the seek stays in flight.
C3_Witness ==
    /\ call.op = "fm_async_task_tick"
    /\ call.status = "ok"
    /\ ~call.ret.done
    /\ bus # <<>>
    /\ radio.async.task = "fm_seek_async_task"
    /\ radio.async.state = 1

\* The clock is counted from the instant the task last ran.
C4_ResumeTime ==
    radio.async.task # "NULL" => radio.async.resume_time = PollInterval(radio.async.task)

C4_EarlyTick ==
    (Accepted({"fm_async_task_tick"}) /\ now < radio.async.resume_time)
        => /\ ~call'.ret.done
           /\ bus' = <<>>
           /\ UNCHANGED <<radio, chip, now>>

\* C4: a tick before the resume time returns done = false, makes no transfer on
\* the bus and leaves the register image, the mirrored state, the task slot and
\* the chip unchanged; the resume time lies one poll interval (5 ms for a tune,
\* 200 ms for a seek) after the instant the task was started or last ran a step.
C4_TickBeforeResume == []C4_ResumeTime /\ [][C4_EarlyTick]_vars

\* A tick came before the resume time of a tune the chip has already completed.
C4_Witness ==
    /\ call.op = "fm_async_task_tick"
    /\ call.status = "ok"
    /\ ~call.ret.done
    /\ bus = <<>>
    /\ radio.async.task = "fm_set_frequency_async_task"
    /\ now < radio.async.resume_time
    /\ fm_get_bit(chip[10], STC_BIT)

\* The register that holds the start bit of a task: TUNE in 0x3, SEEK in 0x2.
StartRegister(task) == IF task = "fm_set_frequency_async_task" THEN 3 ELSE 2

C5_Step ==
    Accepted({"fm_async_task_cancel"})
        => /\ pc' = "ready"
           /\ radio'.async = NoTask
           /\ radio' = [RunTask(Machine, TRUE, {}, now).m.radio EXCEPT !.async = NoTask]
           /\ Len(bus') = 2
           /\ bus'[1].op = "write" /\ bus'[1].reg = StartRegister(radio.async.task)
           /\ bus'[2].op = "read" /\ bus'[2].reg = 10
           /\ ~ChipOperating(chip')

\* C5: one call of fm_async_task_cancel, whatever the chip's STC flag and the
\* clock, runs the task's step once with the cancel flag and returns with the
\* task slot empty: the call makes two transfers, the write that clears the
\* start bit and the read-back of register 0xA, with no read of STC before them.
C5_CancelSynchronous == [][C5_Step]_vars

\* A cancel has returned while the chip had not raised STC.
C5_Witness ==
    /\ call.op = "fm_async_task_cancel"
    /\ call.status = "ok"
    /\ pc = "ready"
    /\ radio.async = NoTask
    /\ ~fm_get_bit(chip[10], STC_BIT)
    /\ Len(bus) = 2

C6_Step ==
    Accepted({"fm_async_task_cancel"})
        => LET progress == RunTask(Machine, TRUE, {}, now)
               channel == fm_get_bits(chip[10], READCHAN_BITS, READCHAN_LSB)
           IN  /\ progress.done
               /\ progress.result = -1
               /\ radio.async.task = "fm_set_frequency_async_task"
                      => ~fm_get_bit(radio'.regs[3], TUNE_BIT)
               /\ radio.async.task = "fm_seek_async_task"
                      => ~fm_get_bit(radio'.regs[2], SEEK_BIT)
               /\ radio'.frequency = fm_channel_to_frequency(channel, radio.frequency_range)

\* C6: after a cancel the start bit of the task (TUNE or SEEK) is clear in the
\* register image, the step's result is -1, and the mirrored frequency is that of
\* the channel the chip reports in READCHAN at the cancel, whatever it is: the
\* frequency the radio had before the operation is not restored.
C6_CancelKeepsChannel == [][C6_Step]_vars

\* A tune to another channel was cancelled while the tuner was on channel 7: the
\* radio's frequency is that of channel 7.
C6_Witness ==
    /\ call.op = "fm_async_task_cancel"
    /\ call.status = "ok"
    /\ Len(bus) = 2 /\ bus[1].reg = 3
    /\ fm_get_bits(radio.regs[3], CHAN_BITS, CHAN_LSB) # 7
    /\ fm_get_bits(chip[10], READCHAN_BITS, READCHAN_LSB) = 7
    /\ radio.frequency = fm_channel_to_frequency(7, radio.frequency_range)
    /\ ~fm_get_bit(radio.regs[3], TUNE_BIT)

\* fm_set_frequency_async is called with the frequency the radio has.
AsyncSameFrequency ==
    Accepted({"fm_set_frequency_async"}) /\ call'.arg = radio.frequency

\* C10 as the specification states it: fm_set_frequency_async with the frequency
\* the radio has makes no write and starts no task.
C10_AsyncNoOp ==
    [][AsyncSameFrequency => (bus' = <<>> /\ radio'.async = NoTask)]_vars

C10_Step ==
    /\ AsyncSameFrequency
           => /\ Len(bus') = 1
              /\ bus'[1].op = "write" /\ bus'[1].reg = 3
              /\ fm_get_bit(bus'[1].vals[1], TUNE_BIT)
              /\ radio'.async.task = "fm_set_frequency_async_task"
              /\ radio'.frequency = radio.frequency
    /\ (Accepted({"fm_set_frequency_blocking"}) /\ call'.arg = radio.frequency)
           => /\ bus' = <<>>
              /\ pc' = "ready"
              /\ UNCHANGED <<radio, chip>>

\* C10: fm_set_frequency_async with the frequency the radio has writes register
\* 0x3 with the channel and the TUNE bit and starts the tune task, as for any
\* other frequency; only fm_set_frequency_blocking returns without a write and
\* without a task when the frequency is the radio's.
C10_AsyncAlwaysStarts == [][C10_Step]_vars

\* A tune task started by fm_set_frequency_async for the frequency the radio has.
C10_Witness ==
    /\ call.op = "fm_set_frequency_async"
    /\ call.status = "ok"
    /\ call.arg = radio.frequency
    /\ radio.async.task = "fm_set_frequency_async_task"
    /\ Len(bus) = 1
    /\ now = 0

\* The field of the mirrored state each setter sets.
SetterField ==
    [fm_set_seek_threshold |-> "seek_threshold", fm_set_mute |-> "mute",
     fm_set_softmute |-> "softmute", fm_set_bass_boost |-> "bass_boost",
     fm_set_mono |-> "mono", fm_set_volume |-> "volume",
     fm_set_frequency_blocking |-> "frequency"]

\* A setter is called with the value its field has.
SetSameValue ==
    /\ Accepted(SetterOps \cup {"fm_set_frequency_blocking"})
    /\ call'.arg = radio[SetterField[call'.op]]

\* C9: a setter (volume, mute, mono, softmute, bass boost, seek threshold) or
\* fm_set_frequency_blocking called with the value in effect, the radio powered up
\* and no task in flight, returns with no transfer on the bus and with the register
\* image, the mirrored state, the task slot and the chip unchanged.
C9_SetterIdempotent ==
    [][SetSameValue => (bus' = <<>> /\ pc' = "ready" /\ UNCHANGED <<radio, chip>>)]_vars

\* The mute was switched off, and fm_set_mute(radio, false) is called again.
C9_Witness ==
    /\ call.op = "fm_set_mute"
    /\ call.status = "ok"
    /\ call.arg = FALSE
    /\ radio.mute = FALSE
    /\ bus = <<>>

----------------------------------------------------------------------------
(* Properties of the station name. *)

\* The decoder p after the groups of the sequence gs, fed in order.
RECURSIVE FeedAll(_, _)
FeedAll(p, gs) ==
    IF gs = <<>> THEN p ELSE FeedAll(rds_parser_update(p, Head(gs)), Tail(gs))

\* The first 8 characters of a station-name buffer.
Name8(str) == [i \in 0..7 |-> str[i]]

\* The character pairs of four groups, high byte then low byte of word d.
Pairs(gs) == [i \in 0..7 |-> IF i % 2 = 0 THEN Shr(gs[i \div 2 + 1].d, 8)
                                            ELSE gs[i \div 2 + 1].d % 256]

\* C7: from every state of the decoder, a basic group with fragment address 0, 1
\* or 2 leaves the public station name unchanged, and four basic groups with the
\* addresses 0, 1, 2, 3 fed in this order make the public station name the
\* concatenation of their four character pairs (high byte, then low byte of word
\* d) in address order.
C7_PsAtomic ==
    /\ \A g \in BasicGroups :
           g.b % 4 \in 0..2 => rds_parser_update(parser, g).ps_str = parser.ps_str
    /\ \A t0, t1, t2, t3 \in Transmissions :
           LET gs == <<BasicGroup(t0, 0), BasicGroup(t1, 1), BasicGroup(t2, 2),
                       BasicGroup(t3, 3)>>
           IN  Name8(FeedAll(parser, gs).ps_str) = Pairs(gs)

\* The name of transmission 1 is public, and the fragments 0, 1, 2 of
\* transmission 2 have arrived since: they are in the scratch buffer only.
C7_Witness ==
    /\ call.op = "rds_parser_update"
    /\ call.arg = BasicGroup(2, 2)
    /\ Name8(parser.ps_str) = PsName(1)
    /\ \A i \in 0..5 : parser.ps_scratch_str[i] = PsName(2)[i]

\* C8 as the specification states it: the public station name is empty (as left
\* by the reset) or the whole name of one transmission, never a mix of two
\* transmissions and never with positions no fragment was received for.
C8_PsComplete ==
    \/ \A i \in 0..7 : parser.ps_str[i] = 0
    \/ \E tx \in Transmissions : Name8(parser.ps_str) = PsName(tx)

----------------------------------------------------------------------------
(* Progress of a task. *)

\* A call made with its preconditions met: no assert stops the program.
Live(A) == A /\ pc' # "aborted"

\* The task engine on one configuration and one seek direction, with a caller
\* that meets the preconditions of its calls.
NextLive ==
    \/ \E faults \in NoFaults : Live(PowerUp(fm_config_europe, faults))
    \/ \E faults \in NoFaults : Live(PowerDown(faults))
    \/ \E f \in TuneRequests, faults \in NoFaults : Live(SetFrequencyAsync(f, faults))
    \/ \E f \in TuneRequests, faults \in NoFaults : Live(SetFrequencyBlocking(f, faults))
    \/ \E faults \in NoFaults : Live(SeekAsync("FM_SEEK_UP", faults))
    \/ \E faults \in NoFaults : Live(SeekBlocking("FM_SEEK_UP", faults))
    \/ \E d \in SleepSteps, faults \in NoFaults : Live(BlockingLoop(d, faults))
    \/ \E faults \in NoFaults : Live(Tick(faults))
    \/ \E faults \in NoFaults : Live(Cancel(faults))
    \/ EnvStep

\* The caller keeps calling fm_async_task_tick and lets time pass between its
\* calls, a blocking call keeps running its loop, and the chip completes the
\* operation it was given.
Fairness ==
    /\ WF_vars(\E faults \in NoFaults : Live(Tick(faults)))
    /\ WF_vars(\E d \in SleepSteps : Sleep(d))
    /\ WF_vars(\E d \in SleepSteps : BlockingLoop(d, {}))
    /\ WF_vars(\E sf \in BOOLEAN : HwComplete(sf))

SpecLive == Init /\ [][NextLive]_vars /\ Fairness

\* C2: with the caller ticking as time passes and the chip raising STC in the
\* end, a task in flight is eventually followed by an empty task slot.
C2_TaskEnds == (radio.async.task # "NULL") ~> (radio.async.task = "NULL")

\* A tick found the operation complete and emptied the task slot.
C2_Witness ==
    /\ call.op = "fm_async_task_tick"
    /\ call.status = "ok"
    /\ call.ret.done
    /\ call.ret.result = 0
    /\ radio.async = NoTask

----------------------------------------------------------------------------
(* The clamped settings: volume and seek threshold over every uint8_t argument. *)

\* uint8_t
Bytes == 0..255

\* The arguments the two setters are called with: values below, at and above the
\* maximum of 15.
ByteArgs == {0, 1, 7, 14, 15, 16, 200, 255}

\* Power, and the two setters that clamp.
NextBytes ==
    \/ PowerStep(NoFaults, {fm_config_europe})
    \/ \E v \in ByteArgs, faults \in NoFaults : SetVolume(v, faults)
    \/ \E v \in ByteArgs, faults \in NoFaults : SetSeekThreshold(v, faults)

SpecBytes == Init /\ [][NextBytes]_vars

\* The bits of register 0x5 outside a field.
OutsideField(reg, bits) == BitAnd(reg, BitNot16(bits))

C11_InRange ==
    /\ radio.volume \in 0..FM_MAX_VOLUME
    /\ radio.seek_threshold \in 0..FM_MAX_SEEK_THRESHOLD

C11_Volume ==
    Accepted({"fm_set_volume"})
        => /\ radio'.volume = (IF call'.arg < 15 THEN call'.arg ELSE 15)
           /\ \A i \in 1..Len(bus') :
                  /\ bus'[i].op = "write" /\ bus'[i].reg = 5
                  /\ fm_get_bits(bus'[i].vals[1], VOLUME_BITS, VOLUME_LSB) = radio'.volume
                  /\ OutsideField(bus'[i].vals[1], VOLUME_BITS) = OutsideField(radio.regs[5], VOLUME_BITS)
           /\ radio'.volume # radio.volume => Len(bus') = 1

C11_SeekThreshold ==
    Accepted({"fm_set_seek_threshold"})
        => /\ radio'.seek_threshold = (IF call'.arg < 15 THEN call'.arg ELSE 15)
           /\ \A i \in 1..Len(bus') :
                  /\ bus'[i].op = "write" /\ bus'[i].reg = 5
                  /\ fm_get_bits(bus'[i].vals[1], SEEKTH_BITS, SEEKTH_LSB) = radio'.seek_threshold
                  /\ OutsideField(bus'[i].vals[1], SEEKTH_BITS) = OutsideField(radio.regs[5], SEEKTH_BITS)
           /\ radio'.seek_threshold # radio.seek_threshold => Len(bus') = 1

\* What the two setters would leave for each value of their uint8_t argument.
C11_EveryByte ==
    CanSet =>
        \A v \in Bytes :
            LET vol == fm_set_volume(Machine, v, {})
                sth == fm_set_seek_threshold(Machine, v, {})
                min == IF v < 15 THEN v ELSE 15
            IN  /\ vol.radio.volume = min
                /\ fm_get_bits(vol.radio.regs[5], VOLUME_BITS, VOLUME_LSB) = min
                /\ OutsideField(vol.radio.regs[5], VOLUME_BITS)
                       = OutsideField(radio.regs[5], VOLUME_BITS)
                /\ sth.radio.seek_threshold = min
                /\ (min # radio.seek_threshold
                       => fm_get_bits(sth.radio.regs[5], SEEKTH_BITS, SEEKTH_LSB) = min)
                /\ OutsideField(sth.radio.regs[5], SEEKTH_BITS)
                       = OutsideField(radio.regs[5], SEEKTH_BITS)

\* C11: for every argument 0..255, fm_set_volume leaves the volume at min(v, 15)
\* and fm_set_seek_threshold leaves the seek threshold at min(v, 15); both values
\* are within 0..15 in every state, and the word written to register 0x5 carries
\* the value in its 4-bit field with every bit outside the field as it was.
C11_Clamping ==
    /\ [](C11_InRange /\ C11_EveryByte)
    /\ [][C11_Volume /\ C11_SeekThreshold]_vars

\* fm_set_volume(radio, 200) has written volume 15 beside the seek threshold field.
C11_Witness ==
    /\ call.op = "fm_set_volume"
    /\ call.status = "ok"
    /\ call.arg = 200
    /\ radio.volume = 15
    /\ Len(bus) = 1
    /\ fm_get_bits(bus[1].vals[1], SEEKTH_BITS, SEEKTH_LSB) = 8

----------------------------------------------------------------------------
(* Transfers that fail. *)

\* A setter was called with its preconditions met and the write it made failed.
SetterWriteFailed ==
    /\ Accepted(SetterOps)
    /\ Len(bus') > 0
    /\ ~bus'[Len(bus')].ok

\* C12: when the write a setter (volume, mute, softmute, mono, bass boost, seek
\* threshold) makes fails, the mirrored field of the setter keeps the value it had.
C12_MirrorOnSuccess ==
    [][SetterWriteFailed
           => radio'[SetterField[call'.op]] = radio[SetterField[call'.op]]]_vars

\* A tune or seek start, a tick or a query was called with its preconditions met
\* and a transfer it made failed.
TransferFailed ==
    /\ Accepted({"fm_set_frequency_async", "fm_seek_async", "fm_async_task_tick"} \cup QueryOps)
    /\ \E i \in 1..Len(bus') : ~bus'[i].ok

\* The call tells its caller of a failure: a tick by a done progress with a
\* negative result, fm_read_rds_group by returning false, a call that returns
\* nothing or a number by not returning normally.
FailureReported ==
    \/ call'.status # "ok"
    \/ call'.op = "fm_async_task_tick" /\ call'.ret.done /\ call'.ret.result < 0
    \/ call'.op = "fm_read_rds_group" /\ ~call'.ret.ready

\* C13: a tune or seek start, a tick, an RSSI or stereo query or a data-group read
\* during which a register transfer fails reports the failure to its caller.
C13_ErrorsPropagate == [][TransferFailed => FailureReported]_vars

----------------------------------------------------------------------------
(* Power down and power up. *)

\* The mirrored settings of the radio.
Settings(r) ==
    <<r.config, r.frequency_range, r.volume, r.mute, r.softmute, r.mono, r.bass_boost,
      r.seek_threshold>>

C14_NoTaskWhileDown == ~fm_is_powered_up(radio) => radio.async = NoTask

C14_Step ==
    Accepted({"fm_power_down"})
        => /\ ~fm_is_powered_up(radio')
           /\ radio'.async = NoTask
           /\ Settings(radio') = Settings(radio)
           /\ bus'[Len(bus')].op = "write" /\ bus'[Len(bus')].reg = 2
           /\ bus'[Len(bus')].vals = <<radio'.regs[2]>>
           /\ radio.async.task = "NULL"
                  => /\ radio' = [radio EXCEPT !.regs[2] = @ - ENABLE_BIT]
                     /\ Len(bus') = 1
           /\ radio.async.task # "NULL"
                  => /\ radio' = [fm_async_task_cancel(Machine, {}, now).radio
                                      EXCEPT !.regs[2] = @ - ENABLE_BIT]
                     /\ Len(bus') = 3
                     /\ bus'[1].op = "write" /\ bus'[1].reg = StartRegister(radio.async.task)

\* C14: fm_power_down with no task in flight changes the ENABLE bit of register
\* 0x2 of the register image and nothing else of the radio (configuration,
\* frequency, volume, mute, softmute, mono, bass boost, seek threshold and the
\* other register bits stay), and fm_is_powered_up is false after it; with a task
\* in flight the task is cancelled before the bit is cleared; no task is in
\* flight in any state where the radio is powered down.
C14_PowerDown == []C14_NoTaskWhileDown /\ [][C14_Step]_vars

\* A radio with the mute switched off and a frequency set was powered down: the
\* DMUTE bit and the frequency are still there.
C14_Witness ==
    /\ call.op = "fm_power_down"
    /\ call.status = "ok"
    /\ ~fm_is_powered_up(radio)
    /\ fm_get_bit(radio.regs[2], DMUTE_BIT)
    /\ ~radio.mute
    /\ radio.frequency = 101000
    /\ Len(bus) = 1

\* What the getters return (fm_get_config, fm_get_frequency_range, fm_get_frequency,
\* fm_get_volume, ...).
Getters(r) == <<Settings(r), r.frequency>>

\* The radio after fm_power_down and fm_power_up with the configuration it has,
\* the chip completing the tune that fm_power_up starts: the blocking loop
\* sleeps one poll interval and its tick finds STC set.
PowerCycle ==
    LET down == fm_power_down(Machine, {}, now)
        up == fm_power_up([down EXCEPT !.bus = <<>>, !.n = 0], radio.config, {})
        f == up.m.radio.frequency
        start == fm_set_frequency_async([up.m EXCEPT !.radio.frequency = 0], f, {}, now)
        tuned == [start EXCEPT !.chip = ChipComplete(@, FALSE)]
        progress == fm_async_task_tick(tuned, {}, now + TUNE_POLL_INTERVAL_MS * 1000)
    IN  [up |-> up, start |-> start, progress |-> progress]

\* The radio is powered up with a frequency set.
FrequencySet == fm_is_powered_up(radio) /\ radio.frequency # 0

\* No task is in flight, and the frequency is one of the band.
Settled ==
    /\ radio.async.task = "NULL"
    /\ radio.frequency >= radio.frequency_range.bottom
    /\ radio.frequency <= radio.frequency_range.top

\* The batched configuration write of fm_power_up carries the mirrored settings.
ConfigWritten(r, e) ==
    /\ e.op = "write" /\ e.reg = 2 /\ e.n = 7
    /\ fm_get_bit(e.vals[1], BASS_BIT) = r.bass_boost
    /\ fm_get_bit(e.vals[1], MONO_BIT) = r.mono
    /\ fm_get_bit(e.vals[1], DMUTE_BIT) = ~r.mute
    /\ fm_get_bit(e.vals[3], SOFTMUTE_EN_BIT) = r.softmute
    /\ fm_get_bits(e.vals[4], VOLUME_BITS, VOLUME_LSB) = r.volume

\* The tune fm_power_up starts is for the channel of frequency f.
TuneStarted(r, e, f) ==
    /\ e.op = "write" /\ e.reg = 3
    /\ fm_get_bit(e.vals[1], TUNE_BIT)
    /\ fm_get_bits(e.vals[1], CHAN_BITS, CHAN_LSB) = fm_frequency_to_channel(f, r.frequency_range)

Restored(cycle) ==
    /\ cycle.up.status = "ok"
    /\ ConfigWritten(radio, cycle.up.m.bus[10])
    /\ TuneStarted(radio, cycle.start.bus[11], radio.frequency)
    /\ cycle.progress.done /\ cycle.progress.result = 0
    /\ Getters(cycle.progress.m.radio) = Getters(radio)
    /\ cycle.progress.m.radio.async = NoTask

\* C15 as the specification states it: from any state with the radio powered up
\* and a frequency set, fm_power_down and fm_power_up with the same configuration
\* leave every getter with the value it had.
C15_RestoresAlways ==
    (FrequencySet /\ chip[0] = CHIP_ID /\ pc = "ready") => Restored(PowerCycle)

C15_Cycle ==
    (FrequencySet /\ Settled /\ chip[0] = CHIP_ID /\ pc = "ready") => Restored(PowerCycle)

\* fm_power_up as the driver runs it, with a frequency remembered.
C15_Step ==
    (Accepted({"fm_power_up"}) /\ radio.frequency # 0 /\ call'.status = "running")
        => /\ Len(bus') = 11
           /\ ConfigWritten(radio, bus'[10])
           /\ radio.frequency >= radio.frequency_range.bottom
              /\ radio.frequency <= radio.frequency_range.top
              /\ call'.arg = radio.config
                  => TuneStarted(radio, bus'[11], radio.frequency)
           /\ Settings(radio') = [Settings(radio) EXCEPT ![1] = call'.arg,
                  ![2] = fm_frequency_range(call'.arg.band, call'.arg.channel_spacing)]
           /\ radio'.async.task = "fm_set_frequency_async_task"
           /\ pc' = "fm_set_frequency_blocking"

\* C15: with the radio powered up, no task in flight and a frequency of the band
\* set, fm_power_down followed by fm_power_up with the same configuration writes
\* the bass boost, mono, mute, softmute and volume bits of the mirrored values in
\* the batched configuration write, starts a tune for the channel of the
\* remembered frequency, and when the tune completes every getter returns the
\* value it returned before the power down.
C15_WakeRestores == []C15_Cycle /\ [][C15_Step]_vars

\* fm_power_up has returned from the tune that restored 101 MHz, the mute off as
\* it was before the power down, and the chip holds both again after its reset.
C15_Witness ==
    /\ call.op = "fm_power_up"
    /\ call.status = "ok"
    /\ pc = "ready"
    /\ radio.frequency = 101000
    /\ ~radio.mute
    /\ fm_get_bit(chip[2], DMUTE_BIT)
    /\ fm_get_bits(chip[10], READCHAN_BITS, READCHAN_LSB) = 140

\* fm_power_up is called on a radio that is powered down.
PowerUpCalled == CallOf({"fm_power_up"}) /\ ~fm_is_powered_up(radio)

\* The program has stopped in panic() or in a failed assert().
Fatal == pc \in {"panic", "aborted"}

C16_Step ==
    PowerUpCalled
        => /\ Len(bus') >= 1
           /\ bus'[1].op = "read" /\ bus'[1].reg = 0
           /\ \A i \in 2..Len(bus') : bus'[i].reg # 0
           /\ IF bus'[1].ok /\ bus'[1].vals = <<22532>>
              THEN /\ pc' \notin {"panic", "aborted"}
                   /\ Len(bus') >= 10
              ELSE /\ pc' = (IF bus'[1].ok THEN "aborted" ELSE "panic")
                   /\ Len(bus') = 1
                   /\ chip' = chip
                   /\ ~fm_is_powered_up(radio')

\* C16: fm_power_up reads register 0x0 once, as its first transfer; when the read
\* fails or returns a value other than 0x5804 the program stops there (panic for
\* the failed read, a failed assert for the wrong value) with no other transfer
\* made, and nothing is sent to the chip in any later step.
C16_IdentityFatal == [][C16_Step /\ (Fatal => UNCHANGED vars)]_vars

\* fm_power_up has stopped on the identity 0x5808 after its one transfer.
C16_Witness ==
    /\ call.op = "fm_power_up"
    /\ call.status = "assert"
    /\ pc = "aborted"
    /\ Len(bus) = 1
    /\ bus[1].ok /\ bus[1].vals = <<22536>>
    /\ chip[2] = 0

----------------------------------------------------------------------------
(* Calls made against their preconditions. *)

TaskOps == {"fm_async_task_tick", "fm_async_task_cancel"}

PowerOps == {"fm_power_up", "fm_power_down"}

\* The call made in the step is one its precondition forbids in this state.
PreconditionViolated ==
    LET up == fm_is_powered_up(radio)
        task == radio.async.task # "NULL"
    IN  \/ call'.op \in SetterOps \cup StartOps \cup QueryOps /\ ~up
        \/ call'.op = "fm_power_up" /\ up
        \/ call'.op = "fm_power_down" /\ ~up
        \/ call'.op \in SetterOps \cup StartOps /\ task
        \/ call'.op \in TaskOps /\ ~task

C17_Step ==
    (CallOf(SetterOps \cup StartOps \cup QueryOps \cup TaskOps \cup PowerOps)
        /\ PreconditionViolated)
        => /\ pc' = "aborted"
           /\ call'.status = "assert"
           /\ bus' = <<>>
           /\ UNCHANGED <<radio, chip>>

\* C17: a setter, a tune or seek start or a query called while powered down,
\* fm_power_up while powered up, fm_power_down while powered down, a setter or a
\* start called with a task in flight, and a tick or a cancel called with no task
\* each stop in a failed assert with no transfer made and with the radio and the
\* chip unchanged; the stopped program makes no further step.
C17_PreconditionsChecked == [][C17_Step /\ (pc = "aborted" => UNCHANGED vars)]_vars

\* fm_set_volume was called during a seek and stopped in its assert.
C17_Witness ==
    /\ call.op = "fm_set_volume"
    /\ call.status = "assert"
    /\ pc = "aborted"
    /\ bus = <<>>
    /\ fm_is_powered_up(radio)
    /\ radio.async.task = "fm_seek_async_task"

----------------------------------------------------------------------------
(* Completion of a seek. *)

\* A tick, or a round of the loop of fm_seek_blocking, runs the step of a seek and
\* its read of register 0xA shows STC.
SeekStepSeesComplete ==
    /\ radio.async.task = "fm_seek_async_task"
    /\ fm_get_bit(chip[10], STC_BIT)
    /\ Len(bus') > 0 /\ bus'[1].ok /\ bus'[1].op = "read" /\ bus'[1].reg = 10
    /\ \/ Accepted({"fm_async_task_tick"}) /\ now >= radio.async.resume_time
       \/ pc = "fm_seek_blocking" /\ <<radio, bus>>' # <<radio, bus>>

\* What the step leaves when the seek is complete.
SeekCompleted ==
    /\ radio'.async = NoTask
    /\ ~fm_get_bit(radio'.regs[2], SEEK_BIT)
    /\ Len(bus') = 3
    /\ bus'[2].op = "write" /\ bus'[2].reg = 2 /\ ~fm_get_bit(bus'[2].vals[1], SEEK_BIT)
    /\ radio'.frequency =
           fm_channel_to_frequency(fm_get_bits(chip[10], READCHAN_BITS, READCHAN_LSB),
                                   radio.frequency_range)

C18_Step ==
    /\ SeekStepSeesComplete
           => /\ SeekCompleted
              /\ pc' = "ready"
              /\ IF pc = "fm_seek_blocking"
                 THEN /\ call'.op = "fm_seek_blocking"
                      /\ call'.status = "ok"
                      /\ call'.ret = ~fm_get_bit(chip[10], SEEKFAIL_BIT)
                 ELSE /\ call'.ret.done
                      /\ call'.ret.result = (IF fm_get_bit(chip[10], SEEKFAIL_BIT) THEN -1 ELSE 0)
    /\ (Accepted({"fm_async_task_tick"}) /\ call'.ret.done) => call'.ret.result \in {0, -1}

\* C18: a tick that runs the step of a seek while the chip shows STC returns done
\* with result 0 when SF is clear and -1 when SF is set; either way it clears SEEK
\* in register 0x2, sets the frequency to that of the channel in READCHAN and
\* empties the task slot; fm_seek_blocking returns true exactly when SF is clear;
\* the result of a done tick is 0 or -1.
C18_SeekCompletion == [][C18_Step]_vars

\* A tick found a seek complete with SF set on channel 7: done, result -1, and the
\* frequency is that of channel 7.
C18_Witness ==
    /\ call.op = "fm_async_task_tick"
    /\ call.status = "ok"
    /\ call.ret.done /\ call.ret.result = -1
    /\ fm_get_bit(chip[10], SEEKFAIL_BIT)
    /\ fm_get_bits(chip[10], READCHAN_BITS, READCHAN_LSB) = 7
    /\ radio.frequency = fm_channel_to_frequency(7, radio.frequency_range)
    /\ ~fm_get_bit(chip[2], SEEK_BIT)
    /\ radio.async = NoTask

----------------------------------------------------------------------------
(* The decoder fed with alternative-frequency lists and radio text. *)

\* A basic group (type 0, address 0) of the given version whose word c carries the
\* bytes f0 and f1.
AltFreqGroup(version, f0, f1) ==
    [a |-> 4096 + 291,
     b |-> RDS_GROUP_BASIC * 4096 + 2048 * version + 32,
     c |-> f0 * 256 + f1,
     d |-> 65 * 256 + 66]

\* The k-th group of a station that announces the frequencies 1, 2, ..., 26 in
\* pairs: more than the decoder keeps.
ListedGroup(k) == AltFreqGroup(0, 2 * k - 1, 2 * k)

\* Groups with bytes out of range (0, 205, 255), a repeated byte, the bytes at the
\* ends of the range (1, 204), a version-B group, whose word c is no list, and a
\* group with bits 4 and 3 of word b set (traffic announcement, music).
StrayGroups ==
    {AltFreqGroup(0, 0, 205), AltFreqGroup(0, 100, 100), AltFreqGroup(0, 101, 255),
     AltFreqGroup(0, 204, 1), AltFreqGroup(1, 77, 78),
     [AltFreqGroup(0, 0, 205) EXCEPT !.b = @ + 16 + 8]}

\* A radio-text group (type 2) of the given version, text flag and fragment
\* address: version A carries four characters in the words c and d, version B the
\* first two of them in word d.
RtGroup(version, a_b, address, chars) ==
    [a |-> 4096 + 291,
     b |-> RDS_GROUP_RT * 4096 + 2048 * version + 32 + 16 * a_b + address,
     c |-> IF version = 0 THEN chars[1] * 256 + chars[2] ELSE 4096 + 291,
     d |-> IF version = 0 THEN chars[3] * 256 + chars[4] ELSE chars[1] * 256 + chars[2]]

\* The text "ABCDEFGHIJ", a carriage return and an "X", cut into the fragments of
\* the given version.
RtText == <<65, 66, 67, 68, 69, 70, 71, 72, 73, 74, 13, 88>>

RtFragment(version, address) ==
    LET n == IF version = 0 THEN 4 ELSE 2
    IN  RtGroup(version, 1, address,
                [i \in 1..n |-> RtText[n * address + i]])

RtFragments(version) ==
    [address \in 1..(IF version = 0 THEN 3 ELSE 6) |-> RtFragment(version, address - 1)]

\* The radio text on the air: the three fragments of version A, the last two of
\* version B, a fragment "abcd" of an earlier text at address 2, and its last
\* fragment "wxyz" at address 15, which fills the buffer.
RtGroups ==
    {RtFragment(0, address) : address \in 0..2}
        \cup {RtFragment(1, 4), RtFragment(1, 5)}
        \cup {RtGroup(0, 0, 2, <<97, 98, 99, 100>>), RtGroup(0, 0, 15, <<119, 120, 121, 122>>)}

\* The station sends its list in order: the pair it sends next is the one after
\* the entries the decoder holds.
RdsUpdateListed ==
    \E k \in 1..13 :
        /\ parser.alt_freq_count = 2 * (k - 1)
        /\ RdsUpdate(ListedGroup(k))

NextAltFreq ==
    \/ RdsUpdateListed
    \/ \E group \in StrayGroups : RdsUpdate(group)
    \/ RdsReset

SpecAltFreq == Init /\ [][NextAltFreq]_vars

NextRt ==
    \/ \E group \in RtGroups : RdsUpdate(group)
    \/ RdsReset

SpecRt == Init /\ [][NextRt]_vars

----------------------------------------------------------------------------
(* The alternative-frequency list. *)

\* The list of a decoder: its first alt_freq_count entries.
AltList(p) == [i \in 1..p.alt_freq_count |-> p.alt_freq[i - 1]]

\* The elements of a sequence.
Elements(s) == {s[i] : i \in 1..Len(s)}

\* A sequence without its repetitions, each element where it first stands.
RECURSIVE Dedup(_)
Dedup(s) ==
    IF s = <<>> THEN <<>>
    ELSE LET d == Dedup(SubSeq(s, 1, Len(s) - 1))
             x == s[Len(s)]
         IN  IF x \in Elements(d) THEN d ELSE Append(d, x)

\* The first n elements of a sequence.
FirstOf(s, n) == SubSeq(s, 1, MIN(Len(s), n))

\* The bytes of a sequence that are in 1..204.
InRange(s) == SelectSeq(s, LAMBDA x : x \in 1..204)

\* The raw bytes a group contributes: the high and the low byte of word c of a
\* basic group of version 0.
RawBytes(group) ==
    IF group.b \div 4096 = 0 /\ (group.b \div 2048) % 2 = 0
    THEN <<group.c \div 256, group.c % 256>>
    ELSE <<>>

\* The raw bytes of a sequence of groups.
RECURSIVE RawBytesOf(_)
RawBytesOf(gs) == IF gs = <<>> THEN <<>> ELSE RawBytes(Head(gs)) \o RawBytesOf(Tail(gs))

\* The list that the raw bytes fed so far stand for.
Expected(raw) == FirstOf(Dedup(InRange(raw)), 25)

\* The bytes of one call of rds_add_alt_freq after the other.
RECURSIVE AddAll(_, _)
AddAll(p, raw) == IF raw = <<>> THEN p ELSE AddAll(rds_add_alt_freq(p, Head(raw)), Tail(raw))

\* Every entry is in 1..204, no entry stands twice, and there are at most 25.
C19_Shape ==
    /\ parser.alt_freq_count \in 0..25
    /\ \A i \in 1..parser.alt_freq_count : AltList(parser)[i] \in 1..204
    /\ \A i, j \in 1..parser.alt_freq_count : AltList(parser)[i] = AltList(parser)[j] => i = j

\* Right after a reset, every sequence of up to three of the groups leaves the list
\* its raw bytes stand for, and the raw bytes 0, 205, 100, 100, 101 leave 100, 101.
C19_FromReset ==
    parser = rds_parser_reset =>
        /\ \A g1, g2, g3 \in StrayGroups \cup {ListedGroup(1), ListedGroup(2)} :
               /\ AltList(FeedAll(parser, <<g1>>)) = Expected(RawBytesOf(<<g1>>))
               /\ AltList(FeedAll(parser, <<g1, g2>>)) = Expected(RawBytesOf(<<g1, g2>>))
               /\ AltList(FeedAll(parser, <<g1, g2, g3>>)) = Expected(RawBytesOf(<<g1, g2, g3>>))
        /\ AltList(AddAll(parser, <<0, 205, 100, 100, 101>>)) = <<100, 101>>

\* A group extends the list by its raw bytes; only a reset shortens it.
C19_Step ==
    /\ call'.op = "rds_parser_update"
           => AltList(parser') = Expected(AltList(parser) \o RawBytes(call'.arg))
    /\ call'.op = "rds_parser_reset" => AltList(parser') = <<>>
    /\ call'.op # "rds_parser_reset" => parser'.alt_freq_count >= parser.alt_freq_count

\* C19: the alternative-frequency list is the first 25 elements of the raw bytes in
\* 1..204 of the basic groups of version 0 fed since the reset (high byte, then low
\* byte of word c), each where it first stood: a group extends the list by its raw
\* bytes in this way, a reset empties it; every entry is in 1..204, no entry stands
\* twice, the count is at most 25 and decreases only by a reset; the raw bytes
\* 0, 205, 100, 100, 101 leave the list 100, 101.
C19_AltFreqList == [](C19_Shape /\ C19_FromReset) /\ [][C19_Step]_vars

\* The list is full with 1..25, and the group that brought 25 and 26 was the last
\* one fed: 26 found no room.
C19_Witness ==
    /\ call.op = "rds_parser_update"
    /\ call.arg = ListedGroup(13)
    /\ parser.alt_freq_count = 25
    /\ AltList(parser) = [i \in 1..25 |-> i]

----------------------------------------------------------------------------
(* Radio text ended by a carriage return. *)

\* The length of the string in a buffer: the position of its first NUL.
StrLen(str) == CHOOSE n \in 0..64 : str[n] = 0 /\ \A i \in 0..(n - 1) : str[i] # 0

\* The fragments of a version fed in address order to a decoder: the decoder before
\* the fragment with the carriage return, and after it.
InOrder(p, version) ==
    LET gs == RtFragments(version)
        before == FeedAll(p, SubSeq(gs, 1, Len(gs) - 1))
    IN  [before |-> before, after |-> rds_parser_update(before, gs[Len(gs)])]

\* The public text is the first 10 characters of RtText and 10 characters long.
TenCharacters(p) ==
    /\ \A i \in 0..9 : p.rt_str[i] = RtText[i + 1]
    /\ p.rt_str[10] = 0
    /\ StrLen(p.rt_str) = 10

\* From every state of the decoder, for both versions: the fragments before the one
\* with the carriage return leave the public text alone, the fragment with the
\* carriage return makes it the 10 characters, and the position after the
\* carriage return keeps what the scratch buffer held.
C20_InOrder ==
    \A version \in {0, 1} :
        LET fed == InOrder(parser, version)
        IN  /\ fed.before.rt_str = parser.rt_str
            /\ fed.before.rt_a_b = parser.rt_a_b
            /\ TenCharacters(fed.after)
            /\ fed.after.rt_a_b
            /\ fed.after.rt_scratch_str[11] = fed.before.rt_scratch_str[11]
            /\ \A i \in 11..64 : fed.after.rt_scratch_str[i] = parser.rt_scratch_str[i]

\* The same on the steps the decoder takes: the fragment with the carriage return,
\* arriving when the scratch buffer holds the 10 characters, commits them, and
\* writes nothing behind the terminator.
C20_Step ==
    (/\ call'.op = "rds_parser_update"
     /\ call'.arg \in {RtFragment(0, 2), RtFragment(1, 5)}
     /\ \A i \in 0..(IF call'.arg = RtFragment(0, 2) THEN 7 ELSE 9) :
            parser.rt_scratch_str[i] = RtText[i + 1])
        => /\ TenCharacters(parser')
           /\ \A i \in 11..64 : parser'.rt_scratch_str[i] = parser.rt_scratch_str[i]

\* C20: radio-text fragments fed in address order, with a carriage return at text
\* position 10 and no carriage return or NUL before it, make the public text, on
\* the group that carries the carriage return and not before, exactly the first 10
\* characters, with the terminator at position 10; the character after the carriage
\* return in the same group is not copied.
C20_CarriageReturn == []C20_InOrder /\ [][C20_Step]_vars

\* The three fragments of version A have arrived in order after a fragment "abcd"
\* of an earlier text at address 2: the public text is "ABCDEFGHIJ", and position
\* 11 still holds the "d" of the earlier text, not the "X" behind the carriage
\* return.
C20_Witness ==
    /\ call.op = "rds_parser_update"
    /\ call.arg = RtFragment(0, 2)
    /\ TenCharacters(parser)
    /\ parser.rt_a_b
    /\ parser.rt_scratch_str[11] = 100
    /\ parser.rt_str[11] = 100

----------------------------------------------------------------------------
(* The fields every group carries, and groups of other types. *)

\* A group with the given fields in word b.
GroupOf(a, type, version, tp, pty, low, c, d) ==
    [a |-> a, b |-> 4096 * type + 2048 * version + 1024 * tp + 32 * pty + low,
     c |-> c, d |-> d]

\* A decoder with the three fields that every group carries taken from a group.
WithHeader(p, group) ==
    [p EXCEPT !.pi = group.a,
              !.pty = (group.b \div 32) % 32,
              !.tp = ((group.b \div 1024) % 2 = 1)]

\* What rds_parser_update makes of decoder p and a group.
HeaderTaken(p, group, q) ==
    /\ q.pi = group.a
    /\ q.pty = (group.b \div 32) % 32
    /\ q.tp = ((group.b \div 1024) % 2 = 1)
    /\ group.b \div 4096 \notin {0, 2} => q = WithHeader(p, group)

\* From every state of the decoder, for groups of all 16 types.
C21_AnyGroup ==
    \A type \in 0..15, version \in {0, 1}, tp \in {0, 1}, pty \in {0, 21, 31},
       low \in {0, 31}, a \in {0, 65535} :
        LET group == GroupOf(a, type, version, tp, pty, low, 100 * 256 + 13, 13 * 256 + 65)
        IN  HeaderTaken(parser, group, rds_parser_update(parser, group))

\* The same on the steps the decoder takes.
C21_Step ==
    call'.op = "rds_parser_update" => HeaderTaken(parser, call'.arg, parser')

\* C21: after rds_parser_update, for a group of any type, pi is word a, pty is
\* bits 5..9 of word b and tp is bit 10 of word b; a group whose type is neither 0
\* nor 2 leaves every other field of the decoder as it was.
C21_Header == []C21_AnyGroup /\ [][C21_Step]_vars

\* A group of type 4 arrived after the station name of transmission 1 was made
\* public: the three fields are those of the group, the name is still there.
C21_Witness ==
    /\ call.op = "rds_parser_update"
    /\ rds_get_group_type(call.arg) = 4
    /\ parser.pi = 8192 + 291
    /\ parser.pty = 0
    /\ Name8(parser.ps_str) = PsName(1)
    /\ parser.alt_freq_count > 0

----------------------------------------------------------------------------
(* Reset of the decoder. *)

\* Every field of a decoder is zero: numbers 0, flags false, every character of
\* every buffer NUL, the list empty.
AllZero(p) ==
    /\ p.pi = 0 /\ p.pty = 0 /\ p.di = 0 /\ p.di_scratch = 0
    /\ ~p.tp /\ ~p.ta /\ ~p.ms /\ ~p.rt_a_b /\ ~p.rt_scratch_a_b
    /\ \A i \in 0..8 : p.ps_str[i] = 0 /\ p.ps_scratch_str[i] = 0
    /\ \A i \in 0..64 : p.rt_str[i] = 0 /\ p.rt_scratch_str[i] = 0
    /\ p.alt_freq_count = 0
    /\ \A i \in 0..24 : p.alt_freq[i] = 0

\* The first group after a reset makes public only what it carries itself: a
\* station name with the group's own two characters and NUL elsewhere, a list of
\* the group's own bytes, a text of the group's own characters.
C22_FreshAfterReset ==
    AllZero(parser) =>
        \A group \in Groups :
            LET q == rds_parser_update(parser, group)
                address == group.b % 4
            IN  /\ \A i \in 0..7 : q.ps_str[i] # 0 =>
                       /\ rds_get_group_type(group) = RDS_GROUP_BASIC /\ address = 3
                       /\ i \in {6, 7}
                       /\ q.ps_str[i] = (IF i = 6 THEN group.d \div 256 ELSE group.d % 256)
                /\ \A i \in 1..q.alt_freq_count :
                       q.alt_freq[i - 1] \in {group.c \div 256, group.c % 256}
                /\ \A i \in 0..63 : q.rt_str[i] # 0 =>
                       /\ rds_get_group_type(group) = RDS_GROUP_RT
                       /\ q.rt_str[i] \in {group.c \div 256, group.c % 256, group.d \div 256, group.d % 256}

\* A reset leaves every field zero, whatever the decoder held; a reset of a
\* decoder that was just reset changes nothing.
C22_Step ==
    call'.op = "rds_parser_reset" =>
        /\ AllZero(parser')
        /\ AllZero(parser) => parser' = parser

\* C22: after rds_parser_reset every public field and every scratch buffer of the
\* decoder is zero, so what the first group after it makes public comes from that
\* group alone; a second reset changes nothing.
C22_ResetClears == []C22_FreshAfterReset /\ [][C22_Step]_vars

\* The decoder was reset and then took fragment 3 of the station name of
\* transmission 2: the public name holds the two characters of that fragment and
\* nothing of the fragments received before the reset.
C22_Witness ==
    /\ call.op = "rds_parser_update"
    /\ call.arg = BasicGroup(2, 3)
    /\ \A i \in 0..5 : parser.ps_str[i] = 0
    /\ parser.ps_str[6] = PsName(2)[6] /\ parser.ps_str[7] = PsName(2)[7]
    /\ parser.alt_freq_count = 1
    /\ \A i \in 0..64 : parser.rt_str[i] = 0

----------------------------------------------------------------------------
(* Frequencies and channels. *)

\* The distance of two frequencies.
Distance(f, g) == IF f >= g THEN f - g ELSE g - f

\* The number of the last channel of a range.
LastChannel(range) == (range.top - range.bottom) \div range.spacing

\* Both round trips, for every frequency (in kHz) and every channel of a range.
RoundTrips(range) ==
    /\ \A f \in range.bottom..range.top :
           2 * Distance(fm_channel_to_frequency(fm_frequency_to_channel(f, range), range), f)
               <= range.spacing
    /\ \A c \in 0..LastChannel(range) :
           fm_frequency_to_channel(fm_channel_to_frequency(c, range), range) = c

\* The range that the first fm_power_up has stored, for each band and each channel
\* spacing, makes both round trips.
C23_StoredRange ==
    (/\ call.op = "fm_power_up" /\ call.status = "ok"
     /\ radio.frequency = 0)
        => RoundTrips(radio.frequency_range)

\* A blocking tune to a frequency of the band ends within half a step of it, on the
\* frequency of the channel that was written.
C23_Step ==
    (/\ pc = "fm_set_frequency_blocking" /\ pc' = "ready"
     /\ call'.op = "fm_set_frequency_blocking"
     /\ call'.arg \in radio.frequency_range.bottom..radio.frequency_range.top)
        => /\ 2 * Distance(radio'.frequency, call'.arg) <= radio.frequency_range.spacing
           /\ fm_frequency_to_channel(radio'.frequency, radio.frequency_range)
                  = fm_get_bits(chip'[3], CHAN_BITS, CHAN_LSB)

\* C23: for every band and channel spacing, every frequency f of the band (in
\* whole kHz) is within half a step of
\* fm_channel_to_frequency(fm_frequency_to_channel(f)), and every channel c of the
\* band is fm_frequency_to_channel(fm_channel_to_frequency(c)).
C23_RoundTrip == []C23_StoredRange /\ [][C23_Step]_vars

\* A blocking tune in the Japan band with 50 kHz steps to 87.125 MHz, half way
\* between two channels, ended on 87.150 MHz.
C23_Witness ==
    /\ call.op = "fm_set_frequency_blocking"
    /\ call.status = "ok"
    /\ call.arg = 87125
    /\ radio.config.band = "FM_BAND_JAPAN"
    /\ radio.config.channel_spacing = "FM_CHANNEL_SPACING_50"
    /\ radio.frequency = 87150
    /\ fm_get_bits(chip[10], READCHAN_BITS, READCHAN_LSB) = 223

----------------------------------------------------------------------------
(* The register writes of a power up followed by a blocking tune. *)

\* The writes among the transfers of a log, in their order.
Writes(log) == SelectSeq(log, LAMBDA e : e.op = "write")

\* A write of the single register reg.
SingleWrite(e, reg) ==
    /\ e.op = "write" /\ e.reg = reg /\ e.n = 1 /\ Len(e.vals) = 1
    /\ e.addr = (IF reg = 2 THEN RDA5807_ADDR_SEQUENTIAL ELSE RDA5807_ADDR_RANDOM_ACCESS)

\* The three writes of fm_power_up with band COMMON, 100 kHz, de-emphasis 50:
\* enable with reset, enable alone, the registers 0x2..0x8 with the configuration.
PowerUpWrites(r, w) ==
    /\ Len(w) = 3
    /\ SingleWrite(w[1], 2) /\ w[1].vals[1] = ENABLE_BIT + SOFT_RESET_BIT
    /\ SingleWrite(w[2], 2) /\ w[2].vals[1] = ENABLE_BIT
    /\ w[3].addr = RDA5807_ADDR_SEQUENTIAL /\ Len(w[3].vals) = 7
    /\ ConfigWritten(r, w[3])
    /\ \A bit \in {ENABLE_BIT, NEW_METHOD_BIT, RDS_EN_BIT, DHIZ_BIT} : fm_get_bit(w[3].vals[1], bit)
    /\ ~fm_get_bit(w[3].vals[1], SOFT_RESET_BIT) /\ ~fm_get_bit(w[3].vals[1], SEEK_BIT)
    /\ fm_get_bits(w[3].vals[2], CHAN_BITS, CHAN_LSB) = 0
    /\ fm_get_bits(w[3].vals[2], BAND_BITS, BAND_LSB) = 0
    /\ fm_get_bits(w[3].vals[2], SPACE_BITS, SPACE_LSB) = 0
    /\ ~fm_get_bit(w[3].vals[2], TUNE_BIT)
    /\ fm_get_bit(w[3].vals[3], DE_BIT)

\* The write that starts the tune to 101.0 MHz: channel 140 with TUNE.
TuneWrite(e) ==
    /\ SingleWrite(e, 3)
    /\ fm_get_bits(e.vals[1], CHAN_BITS, CHAN_LSB) = 140
    /\ fm_get_bit(e.vals[1], TUNE_BIT)

\* The write that ends the tune: register 0x3 as before, without TUNE.
TuneClearWrite(e, started) ==
    /\ SingleWrite(e, 3)
    /\ e.vals[1] = fm_set_bit(started.vals[1], TUNE_BIT, FALSE)

\* fm_power_up with the European configuration and fm_set_frequency_blocking to
\* 101.0 MHz, one after the other on one log; the tuner settles on the channel
\* written either before the first poll of the loop or between the first and the
\* second.
EndToEnd(early) ==
    LET up == fm_power_up(Machine, fm_config_europe, {})
        start == fm_set_frequency_async(up.m, 101000, {}, now)
        poll == TUNE_POLL_INTERVAL_MS * 1000
        first == IF early THEN [m |-> start, done |-> FALSE]
                 ELSE fm_async_task_tick(start, {}, now + poll)
        tuned == [first.m EXCEPT !.chip = ChipComplete(@, FALSE)]
        progress == fm_async_task_tick(tuned, {}, now + (IF early THEN poll ELSE 2 * poll))
    IN  [up |-> up, first |-> first, progress |-> progress]

\* From every state in which the radio is down with no frequency remembered, on a
\* bus with the right chip.
C24_EndToEnd ==
    (~fm_is_powered_up(radio) /\ radio.frequency = 0 /\ chip[0] = CHIP_ID /\ pc = "ready")
        => \A early \in BOOLEAN :
               LET run == EndToEnd(early)
                   w == Writes(run.progress.m.bus)
               IN  /\ run.up.status = "ok"
                   /\ ~run.first.done
                   /\ run.progress.done /\ run.progress.result = 0
                   /\ Len(w) = 5
                   /\ PowerUpWrites(radio, SubSeq(w, 1, 3))
                   /\ TuneWrite(w[4])
                   /\ TuneClearWrite(w[5], w[4])
                   /\ Distance(run.progress.m.radio.frequency, 101000) <= 50
                   /\ run.progress.m.radio.frequency = 101000

\* The same on the steps of the driver: what fm_power_up, the start of the blocking
\* tune and each round of its loop write.
C24_Step ==
    /\ (/\ call'.op = "fm_power_up" /\ call'.status = "ok"
        /\ pc = "ready" /\ ~fm_is_powered_up(radio)
        /\ call'.arg = fm_config_europe)
           => PowerUpWrites(radio, Writes(bus'))
    /\ (/\ call'.op = "fm_set_frequency_blocking" /\ call'.status = "running"
        /\ pc = "ready" /\ call'.arg = 101000
        /\ radio.config = fm_config_europe)
           => Len(Writes(bus')) = 1 /\ TuneWrite(Writes(bus')[1])
    /\ (/\ pc = "fm_set_frequency_blocking" /\ call.op = "fm_set_frequency_blocking"
        /\ <<radio, bus, pc, now>>' # <<radio, bus, pc, now>>)
           => IF pc' = "ready"
              THEN /\ Len(Writes(bus')) = 1
                   /\ SingleWrite(Writes(bus')[1], 3)
                   /\ Writes(bus')[1].vals[1] = fm_set_bit(radio.regs[3], TUNE_BIT, FALSE)
                   /\ radio'.frequency = call.arg
              ELSE Writes(bus') = <<>>

\* C24: fm_power_up with band COMMON, 100 kHz spacing and de-emphasis 50 followed
\* by fm_set_frequency_blocking to 101.0 MHz, on a tuner that settles on the channel
\* written, makes exactly five register writes, in this order: 0x2 with enable and
\* reset, 0x2 with enable alone, 0x2..0x8 in one write with the configuration, 0x3
\* with channel 140 and TUNE, 0x3 with TUNE cleared; the frequency is then
\* 101.0 MHz.
C24_WriteSequence == []C24_EndToEnd /\ [][C24_Step]_vars

\* The blocking tune to 101.0 MHz after a power up with the European configuration
\* has returned; its last round wrote register 0x3 with channel 140 and no TUNE.
C24_Witness ==
    /\ call.op = "fm_set_frequency_blocking"
    /\ call.status = "ok"
    /\ call.arg = 101000
    /\ radio.config = fm_config_europe
    /\ radio.frequency = 101000
    /\ Len(Writes(bus)) = 1
    /\ SingleWrite(Writes(bus)[1], 3)
    /\ fm_get_bits(Writes(bus)[1].vals[1], CHAN_BITS, CHAN_LSB) = 140
    /\ ~fm_get_bit(Writes(bus)[1].vals[1], TUNE_BIT)
    /\ chip[3] = Writes(bus)[1].vals[1]

----------------------------------------------------------------------------
(* The frequency during a seek. *)

\* A tick, or a round of the loop of fm_seek_blocking, runs the step of a seek and
\* its read of register 0xA shows no STC.
SeekStepSeesRunning ==
    /\ radio.async.task = "fm_seek_async_task"
    /\ ~fm_get_bit(chip[10], STC_BIT)
    /\ Len(bus') > 0 /\ bus'[1].ok /\ bus'[1].op = "read" /\ bus'[1].reg = 10
    /\ \/ Accepted({"fm_async_task_tick"}) /\ now >= radio.async.resume_time
       \/ pc = "fm_seek_blocking" /\ <<radio, bus>>' # <<radio, bus>>

C25_Step ==
    SeekStepSeesRunning
        => /\ radio'.frequency =
                  fm_channel_to_frequency(fm_get_bits(chip[10], READCHAN_BITS, READCHAN_LSB),
                                          radio.frequency_range)
           /\ radio'.async.task = "fm_seek_async_task"
           /\ Len(bus') = 1
           /\ pc' = pc
           /\ pc = "ready" => ~call'.ret.done

\* C25: while a seek is in flight, a tick at or after the resume time that finds
\* the seek not complete sets the frequency to that of the channel in READCHAN and
\* returns not done, the seek still in flight.
C25_SeekProgress == [][C25_Step]_vars

\* A tick during a seek found the tuner passing channel 7: it returned not done,
\* and the frequency is that of channel 7.
C25_Witness ==
    /\ call.op = "fm_async_task_tick"
    /\ call.status = "ok"
    /\ ~call.ret.done
    /\ radio.async.task = "fm_seek_async_task"
    /\ Len(bus) = 1
    /\ fm_get_bits(bus[1].vals[1], READCHAN_BITS, READCHAN_LSB) = 7
    /\ radio.frequency = fm_channel_to_frequency(7, radio.frequency_range)
    /\ radio.frequency # 0

----------------------------------------------------------------------------
(* The register a setter writes. *)

\* The register that holds the field of a setter.
SetterRegister ==
    [fm_set_mute |-> 2, fm_set_bass_boost |-> 2, fm_set_mono |-> 2,
     fm_set_softmute |-> 4, fm_set_volume |-> 5, fm_set_seek_threshold |-> 5]

\* The registers a transfer of the log carries.
RegistersOf(e) == e.reg..(e.reg + e.n - 1)

\* An accepted call of a setter changes the value of its field.
SetterChanges ==
    /\ Accepted(SetterOps)
    /\ radio'[SetterField[call'.op]] # radio[SetterField[call'.op]]

\* C26: a setter (volume, mute, softmute, mono, bass boost, seek threshold) called
\* with a value that, clamped, differs from the current one makes one write on the
\* bus, and the write carries the register that holds the field and no other
\* register.
C26_OneRegister ==
    [][SetterChanges
          => /\ Len(bus') = 1
             /\ bus'[1].op = "write"
             /\ RegistersOf(bus'[1]) = {SetterRegister[call'.op]}]_vars

----------------------------------------------------------------------------
(* When the radio text becomes public. *)

\* The characters a radio-text group carries and the position of the first.
RtChars(group) ==
    IF (group.b \div 2048) % 2 = 0
    THEN <<group.c \div 256, group.c % 256, group.d \div 256, group.d % 256>>
    ELSE <<group.d \div 256, group.d % 256>>

RtStart(group) ==
    (group.b % 16) * (IF (group.b \div 2048) % 2 = 0 THEN 4 ELSE 2)

\* A radio-text group meets a terminating condition: a carriage return among its
\* characters, or its last character at position 63.
Terminates(group) ==
    \/ \E i \in 1..Len(RtChars(group)) : RtChars(group)[i] = 13
    \/ RtStart(group) + Len(RtChars(group)) = 64

\* What rds_parser_update makes of the radio text of decoder p with a group.
TextTaken(p, group, q) ==
    LET flag == ((group.b \div 16) % 2 = 1)
    IN  IF group.b \div 4096 = 2 /\ Terminates(group)
        THEN /\ \A i \in 0..63 : q.rt_str[i] = q.rt_scratch_str[i]
             /\ q.rt_str[64] = p.rt_str[64]
             /\ q.rt_a_b = flag
             /\ q.rt_scratch_a_b = flag
        ELSE /\ q.rt_str = p.rt_str
             /\ q.rt_a_b = p.rt_a_b
             /\ group.b \div 4096 = 2 =>
                    /\ q.rt_scratch_a_b = flag
                    /\ q = [WithHeader(p, group) EXCEPT !.rt_scratch_str = q.rt_scratch_str,
                                                        !.rt_scratch_a_b = flag]
                    /\ \A i \in 0..64 :
                           i \notin RtStart(group)..(RtStart(group) + Len(RtChars(group)) - 1)
                               => q.rt_scratch_str[i] = p.rt_scratch_str[i]

\* From every state of the decoder: radio-text groups of both versions, both
\* flags, all 16 addresses, with and without a carriage return, and groups of
\* other types.
C27_AnyGroup ==
    /\ \A version \in {0, 1}, a_b \in {0, 1}, address \in 0..15,
          chars \in {<<97, 98, 99, 100>>, <<13, 98, 99, 100>>, <<97, 98, 99, 13>>,
                     <<97, 98, 13, 13>>} :
           LET group == RtGroup(version, a_b, address, chars)
           IN  TextTaken(parser, group, rds_parser_update(parser, group))
    /\ \A group \in StrayGroups \cup {GroupOf(0, 4, 0, 0, 0, 31, 13 * 256 + 13, 13 * 256 + 13)} :
           TextTaken(parser, group, rds_parser_update(parser, group))

\* The same on the steps the decoder takes.
C27_Step ==
    call'.op = "rds_parser_update" => TextTaken(parser, call'.arg, parser')

\* C27: the public radio text and its public flag change only by a radio-text
\* group with a carriage return among the characters it carries or with its last
\* character at position 63: then the public text becomes the 64 characters of the
\* scratch buffer and the public flag the flag of the group; any other radio-text
\* group changes the scratch buffer, at its own positions, and the scratch flag,
\* and no group of another type changes the public text or flag.
C27_TextCommit == []C27_AnyGroup /\ [][C27_Step]_vars

\* The last fragment of a text without carriage return has filled the buffer: the
\* text made public ends with "wxyz" at positions 60..63 and carries flag 0, after
\* a text with flag 1 was public.
C27_Witness ==
    /\ call.op = "rds_parser_update"
    /\ call.arg = RtGroup(0, 0, 15, <<119, 120, 121, 122>>)
    /\ parser.rt_str[63] = 122 /\ parser.rt_str[60] = 119
    /\ parser.rt_str[0] = 65
    /\ ~parser.rt_a_b
    /\ parser.rt_str = parser.rt_scratch_str

----------------------------------------------------------------------------
(* The decoder-identification bits. *)

\* Bit i of a bitset.
BitAt(bitset, i) == (bitset \div 2 ^ i) % 2

\* What rds_parser_update makes of the decoder-identification bits of decoder p.
DiTaken(p, group, q) ==
    LET address == group.b % 4
        index == 3 - address
    IN  IF group.b \div 4096 = 0
        THEN /\ BitAt(q.di_scratch, index) = (group.b \div 4) % 2
             /\ \A i \in 0..7 : i # index => BitAt(q.di_scratch, i) = BitAt(p.di_scratch, i)
             /\ q.di_scratch \in 0..255
             /\ q.di = IF address = 3 THEN q.di_scratch ELSE p.di
        ELSE /\ q.di_scratch = p.di_scratch
             /\ q.di = p.di

\* From every state of the decoder: basic groups of both versions with every
\* address and both values of bit 2, and groups of the other types.
C28_AnyGroup ==
    /\ parser.di \in 0..15
    /\ \A type \in {0, 2, 4, 15}, version \in {0, 1}, low \in 0..7 :
           LET group == GroupOf(291, type, version, 0, 5, low, 100 * 256 + 101, 65 * 256 + 66)
           IN  DiTaken(parser, group, rds_parser_update(parser, group))

\* The same on the steps the decoder takes.
C28_Step ==
    call'.op = "rds_parser_update" => DiTaken(parser, call'.arg, parser')

\* C28: a basic group writes bit 2 of its word b to bit (3 - address) of the
\* scratch decoder-identification bits, address being the low two bits of word b,
\* and leaves the other scratch bits as they were; the public bits change only by
\* a basic group with address 3, which makes them a copy of the scratch bits; and
\* the public bits are always a number below 16.
C28_DecoderIdentification == []C28_AnyGroup /\ [][C28_Step]_vars

\* Addresses 0 and 1 came from transmission 1 (bit set), address 2 from
\* transmission 2 (bit clear), and address 3 from transmission 1 made them
\* public: bits 3, 2 and 0 set, bit 1 clear.
C28_Witness ==
    /\ call.op = "rds_parser_update"
    /\ call.arg = BasicGroup(1, 3)
    /\ parser.di = 13
    /\ parser.di_scratch = 13

----------------------------------------------------------------------------
(* Reading a data group. *)

\* The data-ready flag fm_read_rds_group goes by: that of register 0xA as the
\* chip holds it, or, when the transfer failed, that of the image kept from the
\* read before.
DataReady ==
    IF bus'[1].ok THEN chip[10] \div RDSR_BIT = 1 ELSE radio.regs[10] \div RDSR_BIT = 1

C29_Step ==
    Accepted({"fm_read_rds_group"}) =>
        /\ Len(bus') = 1
        /\ bus'[1].op = "read"
        /\ bus'[1].addr = RDA5807_ADDR_SEQUENTIAL
        /\ RegistersOf(bus'[1]) = 10..15
        /\ pc' = "ready" /\ now' = now
        /\ bus'[1].ok => \A r \in 10..15 : radio'.regs[r] = chip[r]
        /\ ~bus'[1].ok => radio'.regs = radio.regs
        /\ call'.ret.ready = DataReady
        /\ call'.ret.blocks = IF DataReady
                              THEN <<radio'.regs[12], radio'.regs[13],
                                     radio'.regs[14], radio'.regs[15]>>
                              ELSE <<>>
        /\ \A r \in 0..9 : radio'.regs[r] = radio.regs[r]
        /\ radio' = [radio EXCEPT !.regs = radio'.regs]
        /\ chip' = chip

\* C29: fm_read_rds_group makes one transfer, a sequential read of registers
\* 0xA..0xF, and returns in the same step without letting time pass; it returns
\* false and writes no output word when RDSR of the register 0xA it has read is
\* clear, and else true with the four output words those of registers 0xC, 0xD,
\* 0xE, 0xF in this order; nothing of the radio but the image of registers
\* 0xA..0xF changes: neither the device settings nor the task.
C29_ReadGroup == [][C29_Step]_vars

\* A group was read while a tune to 101.0 MHz was in flight.
C29_Witness ==
    /\ call.op = "fm_read_rds_group"
    /\ call.status = "ok"
    /\ call.ret.ready
    /\ bus[1].ok
    /\ call.ret.blocks = <<BasicGroup(2, 3).a, BasicGroup(2, 3).b, BasicGroup(2, 3).c,
                           BasicGroup(2, 3).d>>
    /\ radio.async.task = "fm_set_frequency_async_task"
    /\ radio.frequency = 101000

----------------------------------------------------------------------------
(* Repeating a blocking tune. *)

\* fm_set_frequency_blocking(f) is called right after fm_set_frequency_blocking(f)
\* has returned.
RepeatedTune ==
    /\ call.op = "fm_set_frequency_blocking"
    /\ call.status = "ok"
    /\ pc = "ready"
    /\ Accepted({"fm_set_frequency_blocking"})
    /\ call'.arg = call.arg

\* C30: for every frequency f, in or out of the band, on or off the channel grid,
\* a call fm_set_frequency_blocking(f) right after fm_set_frequency_blocking(f) has
\* returned, on a tuner that settles on the channel written, makes no transfer on
\* the bus and leaves the radio and the chip as they were.
C30_RepeatIsNoOp ==
    [][RepeatedTune => /\ bus' = <<>>
                       /\ radio' = radio
                       /\ chip' = chip
                       /\ pc' = "ready"]_vars

----------------------------------------------------------------------------
(* The settings, the register image and the chip. *)

\* Registers regs hold the settings of the radio.
HoldsSettings(regs) ==
    /\ fm_get_bits(regs[5], VOLUME_BITS, VOLUME_LSB) = radio.volume
    /\ fm_get_bit(regs[2], DMUTE_BIT) = ~radio.mute
    /\ fm_get_bit(regs[2], MONO_BIT) = radio.mono
    /\ fm_get_bit(regs[2], BASS_BIT) = radio.bass_boost
    /\ fm_get_bit(regs[4], SOFTMUTE_EN_BIT) = radio.softmute
    /\ fm_get_bits(regs[5], SEEKTH_BITS, SEEKTH_LSB) = radio.seek_threshold

\* C31: in every state where the radio is powered up, on a bus without failures,
\* the register image and the chip hold VOLUME = volume, DMUTE = not mute,
\* MONO = mono, BASS = bass_boost, SOFTMUTE_EN = softmute and SEEKTH =
\* seek_threshold, also after a power down and power up that follow a change of
\* the seek threshold.
C31_MirrorAgrees ==
    (fm_is_powered_up(radio) /\ pc \notin {"aborted", "panic"})
        => HoldsSettings(radio.regs) /\ HoldsSettings(chip)

----------------------------------------------------------------------------
(* The start bits of the register image. *)

\* TUNE and SEEK of the register image say which task is in flight.
StartBitsFollowTask ==
    /\ fm_get_bit(radio.regs[3], TUNE_BIT) <=> radio.async.task = "fm_set_frequency_async_task"
    /\ fm_get_bit(radio.regs[2], SEEK_BIT) <=> radio.async.task = "fm_seek_async_task"

\* A setter that writes register 0x2 writes it with SEEK clear.
C32_Step ==
    Accepted(SetterOps) =>
        \A i \in 1..Len(bus') :
            (bus'[i].op = "write" /\ 2 \in RegistersOf(bus'[i]))
                => ~fm_get_bit(bus'[i].vals[1], SEEK_BIT)

\* C32: in every state TUNE of register 0x3 of the register image is set exactly
\* when a tune task is in flight and SEEK of register 0x2 exactly when a seek task
\* is in flight: with no task, after a tick that reports done, a cancel or a power
\* down, both are clear, and a setter that writes register 0x2 writes SEEK clear.
C32_StartBits == []StartBitsFollowTask /\ [][C32_Step]_vars

\* fm_set_mute writes register 0x2 after a seek upwards has ended: SEEKUP is
\* still set in the value written, SEEK is not.
C32_Witness ==
    /\ call.op = "fm_set_mute"
    /\ call.status = "ok"
    /\ Len(bus) = 1
    /\ bus[1].op = "write" /\ bus[1].reg = 2
    /\ fm_get_bit(bus[1].vals[1], SEEKUP_BIT)
    /\ ~fm_get_bit(bus[1].vals[1], SEEK_BIT)
    /\ radio.async.task = "NULL"

----------------------------------------------------------------------------
(* The channel spacing of the range and of the chip. *)

\* The channel spacing in kHz that a value of the SPACE field selects, as
\* fm_set_channel_spacing_bits pairs the values with fm_channel_spacing_t.
SpaceKHz(space) ==
    CASE space = 1 -> 200
      [] space = 0 -> 100
      [] space = 2 -> 50
      [] OTHER -> 25

\* C33: after fm_power_up, for each of the four values of the channel-spacing
\* configuration (200, 100, 50 and 25 kHz), the step stored in the frequency range
\* of the radio, which the conversions between channel and frequency use, is the
\* spacing that the SPACE bits written to register 0x3 select.
C33_StepMatchesSpacing ==
    (fm_is_powered_up(radio) /\ pc \notin {"aborted", "panic"})
        => /\ radio.frequency_range.spacing
                  = SpaceKHz(fm_get_bits(radio.regs[3], SPACE_BITS, SPACE_LSB))
           /\ radio.frequency_range.spacing
                  = SpaceKHz(fm_get_bits(chip[3], SPACE_BITS, SPACE_LSB))

----------------------------------------------------------------------------
(* A radio text of full length. *)

\* A text of 64 characters without carriage return.
CycleText == [i \in 1..64 |-> 32 + i]

\* The 16 radio-text groups of a version that carry the text, in the order of
\* their fragment addresses: 64 characters in version A, the first 32 in version B.
CycleGroups(version) ==
    [k \in 1..16 |->
        LET per == IF version = 0 THEN 4 ELSE 2
        IN  RtGroup(version, 1, k - 1,
                    [j \in 1..per |-> CycleText[per * (k - 1) + j]])]

\* The public text after the 16 groups is the text they carry.
CycleCommitted(p, version) ==
    LET q == FeedAll(p, CycleGroups(version))
        length == IF version = 0 THEN 64 ELSE 32
    IN  \A i \in 0..(length - 1) : q.rt_str[i] = CycleText[i + 1]

\* C34: after radio-text groups for the 16 fragment addresses 0..15, fed in order
\* and carrying no carriage return, the public radio text is the text the groups
\* carry: 64 characters from groups of version A, 32 characters from groups of
\* version B.
C34_CycleCommitted ==
    \A version \in {0, 1} : CycleCommitted(parser, version)

\* The same for version A alone.
C34_VersionA == CycleCommitted(parser, 0)

----------------------------------------------------------------------------
(* The bounds of the decoder's buffers. *)

\* The four strings of decoder p have their sizes and end with NUL.
Terminated(p) ==
    /\ DOMAIN p.ps_str = 0..8 /\ DOMAIN p.ps_scratch_str = 0..8
    /\ DOMAIN p.rt_str = 0..64 /\ DOMAIN p.rt_scratch_str = 0..64
    /\ p.ps_str[8] = 0 /\ p.ps_scratch_str[8] = 0
    /\ p.rt_str[64] = 0 /\ p.rt_scratch_str[64] = 0

\* The positions of the scratch buffers that a group addresses, by its type.
ScratchPositions(group) ==
    IF group.b \div 4096 = RDS_GROUP_RT
    THEN RtStart(group)..(RtStart(group) + Len(RtChars(group)) - 1)
    ELSE (2 * (group.b % 4))..(2 * (group.b % 4) + 1)

\* rds_parser_update turns decoder p into q with writes within the buffers.
WithinBuffers(p, group, q) ==
    /\ Terminated(q)
    /\ group.b \div 4096 = RDS_GROUP_RT =>
           /\ ScratchPositions(group) \subseteq 0..63
           /\ \A i \in 0..64 : i \notin ScratchPositions(group)
                  => q.rt_scratch_str[i] = p.rt_scratch_str[i]
           /\ q.ps_scratch_str = p.ps_scratch_str /\ q.ps_str = p.ps_str
    /\ group.b \div 4096 = RDS_GROUP_BASIC =>
           /\ ScratchPositions(group) \subseteq 0..7
           /\ \A i \in 0..8 : i \notin ScratchPositions(group)
                  => q.ps_scratch_str[i] = p.ps_scratch_str[i]
           /\ q.rt_scratch_str = p.rt_scratch_str /\ q.rt_str = p.rt_str

\* From every state of the decoder: basic and radio-text groups of both versions
\* with the 16 values of the low four bits of word b, with printable characters,
\* with a carriage return first or last, and with the bytes 0 and 255.
C35_AnyGroup ==
    /\ Terminated(parser)
    /\ \A type \in {RDS_GROUP_BASIC, RDS_GROUP_RT}, version \in {0, 1}, low \in 0..15,
          cd \in {<<65 * 256 + 66, 67 * 256 + 68>>, <<13 * 256 + 66, 67 * 256 + 68>>,
                  <<65 * 256 + 66, 67 * 256 + 13>>, <<255 * 256 + 255, 255>>} :
           LET group == GroupOf(291, type, version, 0, 5, low, cd[1], cd[2])
           IN  \E q \in {rds_parser_update(parser, group)} : WithinBuffers(parser, group, q)

\* The same on the steps the decoder takes.
C35_Step ==
    call'.op = "rds_parser_update" => WithinBuffers(parser, call'.arg, parser')

\* C35: a radio-text group of any fragment address, version and characters
\* changes only positions 0..63 of the scratch text, and a basic group only
\* positions 0..7 of the scratch station name; in every state position 64 of both
\* text buffers and position 8 of both station-name buffers is NUL, so that the
\* public strings end within their buffers.
C35_BuffersInBounds == []C35_AnyGroup /\ [][C35_Step]_vars

\* The last fragment of a text has filled position 63 and made the text public,
\* and the last fragment of a station name would fill positions 6 and 7 and make
\* the name public: both strings then end at their last position.
C35_Witness ==
    /\ call.op = "rds_parser_update"
    /\ call.arg = RtGroup(0, 0, 15, <<119, 120, 121, 122>>)
    /\ parser.rt_str[63] = 122
    /\ parser.rt_str[64] = 0
    /\ \E q \in {rds_parser_update(parser, BasicGroup(1, 3))} :
           q.ps_str[7] = PsName(1)[7] /\ q.ps_str[8] = 0

----------------------------------------------------------------------------
(* The traffic-announcement and music/speech flags. *)

\* The two flags of decoder q are those of decoder p.
FlagsKept(p, q) == q.ta = p.ta /\ q.ms = p.ms

\* From every state of the decoder, which starts reset: the flags are false, and
\* groups of types 0, 2 and 15 of both versions, with bit 4 and bit 3 of word b
\* in every combination, leave them so.
C36_AnyGroup ==
    /\ ~parser.ta /\ ~parser.ms
    /\ \A type \in {RDS_GROUP_BASIC, RDS_GROUP_RT, 15}, version \in {0, 1}, tp \in {0, 1},
          low \in {3, 8, 16, 24, 27, 31} :
           LET group == GroupOf(291, type, version, tp, 5, low, 100 * 256 + 101, 65 * 256 + 66)
           IN  FlagsKept(parser, rds_parser_update(parser, group))

\* The same on the steps the decoder takes.
C36_Step ==
    call'.op = "rds_parser_update" => FlagsKept(parser, parser')

\* C36: rds_parser_update never changes ta or ms, whatever the groups fed after a
\* reset, basic groups with bits 4 and 3 of word b set included:
\* rds_has_traffic_announcement and rds_has_music keep returning false.
C36_FlagsNeverDecoded == []C36_AnyGroup /\ [][C36_Step]_vars

\* A basic group with both bits set was decoded: its station-name characters are
\* in the scratch buffer after a list of frequencies was taken, the flags are false.
C36_Witness ==
    /\ call.op = "rds_parser_update"
    /\ call.arg.b \div 4096 = RDS_GROUP_BASIC
    /\ (call.arg.b \div 16) % 2 = 1 /\ (call.arg.b \div 8) % 2 = 1
    /\ parser.ps_scratch_str[0] = 65
    /\ parser.alt_freq_count = 2
    /\ ~parser.ta /\ ~parser.ms

----------------------------------------------------------------------------
(* The channel field of register 0x3. *)

\* The channel of a requested frequency in a range: the nearest channel of the
\* frequency brought into the band.
ChannelOf(f, range) ==
    LET inside == IF f < range.bottom THEN range.bottom
                  ELSE IF f > range.top THEN range.top ELSE f
    IN  RoundDiv(inside - range.bottom, range.spacing)

\* Register 0x3 with value v carries channel c of the range in CHAN and has the
\* bits outside CHAN and TUNE as register value w has them.
CarriesChannel(v, c, range, w) ==
    /\ c \in 0..LastChannel(range)
    /\ c <= 1023
    /\ Shl(c, CHAN_LSB) < Word
    /\ fm_get_bits(v, CHAN_BITS, CHAN_LSB) = c
    /\ fm_get_bit(v, TUNE_BIT)
    /\ \A bits \in {BAND_BITS, SPACE_BITS, DIRECT_MODE_BIT} :
           BitAnd(v, bits) = BitAnd(w, bits)

\* Requests every 25 kHz from 40 to 120 MHz, and some off every grid.
EveryRequest == {40000 + 25 * k : k \in 0..3200} \cup {87001, 87099, 107999, 75987}

\* Right after the first fm_power_up, for each band and each channel spacing:
\* what fm_set_frequency_async would write for every request.
C37_StoredRange ==
    (/\ call.op = "fm_power_up" /\ call.status = "ok"
     /\ radio.frequency = 0)
        => \A f \in EveryRequest :
               \E m \in {fm_set_frequency_async(Machine, f, {}, now)} :
                   /\ Len(m.bus) = 1
                   /\ m.bus[1].op = "write" /\ m.bus[1].reg = 3
                   /\ CarriesChannel(m.bus[1].vals[1], ChannelOf(f, radio.frequency_range),
                                     radio.frequency_range, radio.regs[3])
                   /\ m.radio.regs[3] = m.bus[1].vals[1]

\* The same on the tunes that are started.
C37_Step ==
    (/\ Accepted({"fm_set_frequency_blocking"})
     /\ pc' = "fm_set_frequency_blocking")
        => /\ Len(bus') = 1
           /\ bus'[1].op = "write" /\ bus'[1].reg = 3
           /\ CarriesChannel(bus'[1].vals[1], ChannelOf(call'.arg, radio.frequency_range),
                             radio.frequency_range, radio.regs[3])

\* C37: for every band, every channel spacing and every requested frequency,
\* below, inside or above the band, the channel that fm_set_frequency_async
\* computes is one of 0..(top - bottom) / step and at most 1023, and register 0x3
\* is written with this channel in CHAN and with BAND, SPACE and DIRECT_MODE as
\* they were.
C37_ChannelFits == []C37_StoredRange /\ [][C37_Step]_vars

\* A tune to 120 MHz in the band 76-108 MHz with 50 kHz steps was started: the
\* last channel of the widest range, 640, is in CHAN, and BAND and SPACE are those
\* of the configuration.
C37_Witness ==
    /\ call.op = "fm_set_frequency_blocking"
    /\ pc = "fm_set_frequency_blocking"
    /\ call.arg = 120000
    /\ radio.config.band = "FM_BAND_JAPAN_WIDE"
    /\ radio.config.channel_spacing = "FM_CHANNEL_SPACING_50"
    /\ fm_get_bits(bus[1].vals[1], CHAN_BITS, CHAN_LSB) = 640
    /\ fm_get_bits(chip[3], BAND_BITS, BAND_LSB) = 2
    /\ fm_get_bits(chip[3], SPACE_BITS, SPACE_LSB) = 2

====
